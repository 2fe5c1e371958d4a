--------------------------- MODULE ExecutorProofs ---------------------------
(***************************************************************************)
(* Proofs about ExecutionPlan and Executor, for every composition: any     *)
(* number of steps, any graph, any optional steps, any failures in any     *)
(* order of completion.                                                    *)
(*                                                                         *)
(* BuildDAG: steps leave in waves, and the in-degree of a step is the      *)
(* number of its dependencies that have not left.                          *)
(*                                                                         *)
(* What Execute promises rests on the plan: a step that starts has not run *)
(* before (waves are disjoint), and its dependencies have returned (they   *)
(* are in earlier waves).  ExecInv says where steps are relative to the    *)
(* waves, what a step that returned has left behind, and in which list its *)
(* error is.                                                               *)
(***************************************************************************)
EXTENDS Executor, FiniteSetTheorems, SequenceTheorems, TLAPS

-----------------------------------------------------------------------------
(* The plan                                                                *)

\* The cardinality of a disjoint union.
LEMMA DisjointUnion ==
  ASSUME NEW A, NEW B, IsFiniteSet(A), IsFiniteSet(B), A \cap B = {}
  PROVE  Cardinality(A \cup B) = Cardinality(A) + Cardinality(B)
<1>1. Cardinality(A \cup B) = Cardinality(A) + Cardinality(B) - Cardinality(A \cap B)
  BY FS_Union
<1>2. Cardinality(A \cap B) = 0
  BY FS_EmptySet
<1>3. Cardinality(A) \in Nat /\ Cardinality(B) \in Nat
  BY FS_CardinalityType
<1>. QED
  BY <1>1, <1>2, <1>3

\* Removing E and then Q from a finite set takes away its elements in Q, when
\* Q and E are disjoint.
LEMMA CardinalitySplit ==
  ASSUME NEW D, IsFiniteSet(D), NEW E, NEW Q, E \cap Q = {}
  PROVE  /\ Cardinality(D \ (E \cup Q)) = Cardinality(D \ E) - Cardinality(D \cap Q)
         /\ Cardinality(D \ (E \cup Q)) \in Nat
<1> DEFINE A == D \ (E \cup Q)
           B == D \cap Q
<1>1. IsFiniteSet(A) /\ IsFiniteSet(B)
  BY FS_Subset
<1>2. A \cap B = {} /\ A \cup B = D \ E
  OBVIOUS
<1>3. Cardinality(A) \in Nat /\ Cardinality(B) \in Nat
  BY <1>1, FS_CardinalityType
<1> HIDE DEF A, B
<1>4. Cardinality(A \cup B) = Cardinality(A) + Cardinality(B)
  BY <1>1, <1>2, <1>3, DisjointUnion
<1>5. Cardinality(D \ E) = Cardinality(A) + Cardinality(B)
  BY <1>2, <1>4, Zenon
<1>6. Cardinality(A) = Cardinality(D \ E) - Cardinality(B)
  BY <1>3, <1>5
<1>. QED
  BY <1>3, <1>6, Zenon DEF A, B

\* What one turn of the loop adds to the emitted steps.
LEMMA EmitWaveEmits ==
  ASSUME PlanTypeOK, EmitWave
  PROVE  /\ Emitted' = Emitted \cup queue
         /\ Len(waves') = Len(waves) + 1
         /\ DOMAIN waves' = DOMAIN waves \cup {Len(waves) + 1}
         /\ Len(waves) + 1 \notin DOMAIN waves
         /\ waves'[Len(waves) + 1] = queue
         /\ \A i \in DOMAIN waves : waves'[i] = waves[i]
<1>1. /\ Len(waves') = Len(waves) + 1
      /\ DOMAIN waves' = DOMAIN waves \cup {Len(waves) + 1}
      /\ Len(waves) + 1 \notin DOMAIN waves
      /\ waves'[Len(waves) + 1] = queue
      /\ \A i \in DOMAIN waves : waves'[i] = waves[i]
  BY DEF PlanTypeOK, EmitWave
<1>2. Emitted' = Emitted \cup queue
  BY <1>1 DEF Emitted
<1>. QED
  BY <1>1, <1>2

LEMMA PlanInitInv == PlanInit => PlanInv
<1> SUFFICES ASSUME PlanInit PROVE PlanInv
  OBVIOUS
<1>1. PlanTypeOK
  BY DEF PlanInit, PlanTypeOK, Dependencies
<1>2. Emitted = {} /\ DOMAIN waves = {}
  BY DEF PlanInit, Emitted
<1>. QED
  BY <1>1, <1>2 DEF PlanInit, PlanInv, CountsRemaining, Counted, EmittedBehindDeps,
     QueueBehindLastWave, WavesDisjoint, WavesMinimal

\* Facts about the sets of the invariant that the steps below share.
LEMMA FiniteParts ==
  ASSUME PlanTypeOK
  PROVE  /\ Emitted \subseteq Steps
         /\ IsFiniteSet(Emitted)
         /\ IsFiniteSet(queue)
         /\ \A s \in Steps : IsFiniteSet(deps[s]) /\ Cardinality(deps[s]) \in Nat
         /\ Cardinality(Emitted) \in Nat /\ Cardinality(queue) \in Nat
         /\ Cardinality(Steps) \in Nat
<1>1. Emitted \subseteq Steps
  BY DEF PlanTypeOK, Emitted
<1>2. IsFiniteSet(Steps \cup {Missing})
  BY StepsAssumption, FS_AddElement
<1>3. \A s \in Steps : IsFiniteSet(deps[s])
  BY <1>2, FS_Subset DEF PlanTypeOK, Dependencies
<1>4. IsFiniteSet(Emitted) /\ IsFiniteSet(queue)
  BY <1>1, StepsAssumption, FS_Subset DEF PlanTypeOK
<1>. QED
  BY <1>1, <1>3, <1>4, StepsAssumption, FS_CardinalityType

LEMMA EmitWaveInv == PlanInv /\ EmitWave => PlanInv'
<1> SUFFICES ASSUME PlanInv, EmitWave PROVE PlanInv'
  OBVIOUS
<1> DEFINE new == Len(waves) + 1
<1>0. PlanTypeOK /\ Counted
  BY DEF PlanInv, EmitWave, Counted
<1>1. /\ Emitted' = Emitted \cup queue
      /\ Len(waves') = new
      /\ DOMAIN waves' = DOMAIN waves \cup {new}
      /\ new \notin DOMAIN waves
      /\ waves'[new] = queue
      /\ \A i \in DOMAIN waves : waves'[i] = waves[i]
  BY <1>0, EmitWaveEmits
<1>2. Emitted \cap queue = {}
  BY <1>0 DEF PlanInv, CountsRemaining
<1>3. \A s \in Steps : /\ inDegree'[s] = Cardinality(deps[s] \ Emitted')
                       /\ inDegree'[s] \in Nat
  <2> SUFFICES ASSUME NEW s \in Steps
               PROVE  /\ inDegree'[s] = Cardinality(deps[s] \ Emitted')
                      /\ inDegree'[s] \in Nat
    OBVIOUS
  <2>1. IsFiniteSet(deps[s])
    BY <1>0, FiniteParts
  <2>2. inDegree'[s] = Cardinality(deps[s] \ Emitted) - Cardinality(deps[s] \cap queue)
    BY <1>0 DEF EmitWave, PlanInv, CountsRemaining
  <2>3. /\ Cardinality(deps[s] \ (Emitted \cup queue))
             = Cardinality(deps[s] \ Emitted) - Cardinality(deps[s] \cap queue)
        /\ Cardinality(deps[s] \ (Emitted \cup queue)) \in Nat
    BY <2>1, <1>2, CardinalitySplit
  <2>. QED
    BY <2>2, <2>3, <1>1, Zenon
<1>4. \A s \in Steps : inDegree'[s] = 0 <=> deps[s] \subseteq Emitted'
  <2> SUFFICES ASSUME NEW s \in Steps
               PROVE  inDegree'[s] = 0 <=> deps[s] \subseteq Emitted'
    OBVIOUS
  <2>1. IsFiniteSet(deps[s] \ Emitted')
    BY <1>0, FiniteParts, FS_Subset
  <2>2. Cardinality(deps[s] \ Emitted') = 0 <=> deps[s] \ Emitted' = {}
    BY <2>1, FS_EmptySet
  <2>. QED
    BY <2>2, <1>3
<1>5. queue' = {s \in Steps \ Emitted' : deps[s] \subseteq Emitted'}
  <2>1. queue' = {s \in Steps : deps[s] \cap queue # {} /\ inDegree'[s] = 0}
    BY DEF EmitWave
  <2>2. queue = {s \in Steps \ Emitted : deps[s] \subseteq Emitted}
    BY <1>0 DEF PlanInv, CountsRemaining
  <2>3. \A s \in Emitted : deps[s] \cap queue = {}
    <3> SUFFICES ASSUME NEW s \in Emitted, NEW d \in deps[s] PROVE d \notin queue
      OBVIOUS
    <3>1. PICK i \in DOMAIN waves : s \in waves[i]
      BY DEF Emitted
    <3>2. d \in Emitted
      BY <3>1 DEF PlanInv, EmittedBehindDeps, Emitted
    <3>. QED
      BY <3>2, <1>2
  <2>. QED
    BY <2>1, <2>2, <2>3, <1>1, <1>4
<1>6. processed' = Cardinality(Emitted')
  <2>1. IsFiniteSet(Emitted) /\ IsFiniteSet(queue)
        /\ Cardinality(Emitted) \in Nat /\ Cardinality(queue) \in Nat
    BY <1>0, FiniteParts
  <2>2. Cardinality(Emitted \cup queue) = Cardinality(Emitted) + Cardinality(queue)
    BY <2>1, <1>2, DisjointUnion
  <2>. QED
    BY <2>1, <2>2, <1>0, <1>1 DEF EmitWave, PlanInv, CountsRemaining
<1>7. PlanTypeOK'
  <2>1. processed' \in Nat
    BY <1>0, FiniteParts DEF EmitWave, PlanTypeOK
  <2>2. queue' \subseteq Steps
    BY <1>5
  <2>3. waves' \in Seq(SUBSET Steps)
    BY <1>0 DEF EmitWave, PlanTypeOK
  <2>4. inDegree' \in [Steps -> Nat]
    BY <1>3 DEF EmitWave
  <2>. QED
    BY <2>1, <2>2, <2>3, <2>4, <1>0 DEF EmitWave, PlanTypeOK
<1>8. CountsRemaining'
  <2>1. planPc' = "kahn" /\ deps' = deps
    BY DEF EmitWave
  <2>2. \A s \in Steps : deps[s] \subseteq Steps
    BY <1>0 DEF PlanInv, CountsRemaining
  <2>. QED
    BY <2>1, <2>2, <1>3, <1>5, <1>6 DEF CountsRemaining
<1>9. EmittedBehindDeps'
  <2>0. deps' = deps /\ planPc' = "kahn"
    BY DEF EmitWave
  <2>1. \A s \in queue : deps[s] \subseteq Emitted
    BY <1>0 DEF PlanInv, CountsRemaining
  <2>2. \A i \in DOMAIN waves : i \in Nat /\ i < new
    BY <1>0 DEF PlanTypeOK
  <2>3. ASSUME NEW i \in DOMAIN waves', NEW s \in waves'[i], NEW d \in deps[s]
        PROVE  \E j \in DOMAIN waves' : j < i /\ d \in waves'[j]
    <3>1. CASE i = new
      <4>1. d \in Emitted
        BY <3>1, <1>1, <2>1
      <4>2. PICK j \in DOMAIN waves : d \in waves[j]
        BY <4>1 DEF Emitted
      <4>. QED
        BY <4>2, <3>1, <2>2, <1>1
    <3>2. CASE i # new
      <4>1. i \in DOMAIN waves /\ s \in waves[i]
        BY <3>2, <1>1
      <4>2. PICK j \in DOMAIN waves : j < i /\ d \in waves[j]
        BY <4>1 DEF PlanInv, EmittedBehindDeps
      <4>. QED
        BY <4>2, <1>1
    <3>. QED
      BY <3>1, <3>2
  <2>4. ASSUME NEW C \in SUBSET Steps, Cyclic(C)
        PROVE  C \cap Emitted' = {}
    <3>1. C \cap Emitted = {}
      BY <2>4 DEF PlanInv, EmittedBehindDeps
    <3>2. \A s \in C : deps[s] \cap C # {}
      BY <2>4 DEF Cyclic
    <3>. QED
      BY <3>1, <3>2, <2>1, <1>1
  <2>. QED
    BY <2>0, <2>3, <2>4 DEF EmittedBehindDeps, Cyclic
<1>10. QueueBehindLastWave'
  BY <1>1 DEF EmitWave, QueueBehindLastWave
<1>11. WavesDisjoint'
  <2>1. \A i \in DOMAIN waves : waves[i] \cap queue = {}
    BY <1>2 DEF Emitted
  <2>. QED
    BY <2>1, <1>1 DEF PlanInv, WavesDisjoint
<1>12. WavesMinimal'
  <2>0. deps' = deps /\ queue # {}
    BY DEF EmitWave
  <2>1. ASSUME NEW i \in DOMAIN waves', i > 1
        PROVE  waves'[i] # {} /\ \A s \in waves'[i] : deps[s] \cap waves'[i - 1] # {}
    <3>1. CASE i = new
      <4>1. waves # <<>> /\ Len(waves) \in DOMAIN waves /\ i - 1 = Len(waves)
        BY <2>1, <3>1, <1>0 DEF PlanTypeOK
      <4>2. \A s \in queue : deps[s] \cap waves[Len(waves)] # {}
        BY <4>1, <1>0 DEF PlanInv, QueueBehindLastWave
      <4>. QED
        BY <4>1, <4>2, <3>1, <2>0, <1>1
    <3>2. CASE i # new
      <4>1. i \in DOMAIN waves /\ i - 1 \in DOMAIN waves
        BY <2>1, <3>2, <1>0, <1>1 DEF PlanTypeOK
      <4>. QED
        BY <4>1, <2>1, <1>1 DEF PlanInv, WavesMinimal
    <3>. QED
      BY <3>1, <3>2
  <2>. QED
    BY <2>0, <2>1 DEF WavesMinimal
<1>. QED
  BY <1>7, <1>8, <1>9, <1>10, <1>11, <1>12 DEF PlanInv

LEMMA CountDegreesInv == PlanInv /\ CountDegrees => PlanInv'
<1> SUFFICES ASSUME PlanInv, CountDegrees PROVE PlanInv'
  OBVIOUS
<1>0. PlanTypeOK
  BY DEF PlanInv
<1>1. waves = <<>> /\ waves' = <<>> /\ processed' = 0 /\ deps' = deps /\ planPc' = "kahn"
  BY DEF PlanInv, EmittedBehindDeps, CountDegrees
<1>2. Emitted = {} /\ Emitted' = {}
  BY <1>1 DEF Emitted
<1>3. \A s \in Steps : /\ Cardinality(deps[s]) \in Nat
                       /\ Cardinality(deps[s]) = 0 <=> deps[s] = {}
  BY <1>0, FiniteParts, FS_EmptySet
<1>4. PlanTypeOK'
  BY <1>0, <1>1, <1>3 DEF PlanTypeOK, CountDegrees
<1>5. CountsRemaining'
  <2>1. \A s \in Steps : deps[s] \subseteq Steps /\ deps[s] \ Emitted' = deps[s]
    BY <1>2 DEF CountDegrees
  <2>2. \A s \in Steps : inDegree'[s] = Cardinality(deps[s] \ Emitted')
    BY <2>1 DEF CountDegrees
  <2>3. queue' = {s \in Steps \ Emitted' : deps[s] \subseteq Emitted'}
    BY <1>2, <1>3 DEF CountDegrees
  <2>4. processed' = Cardinality(Emitted')
    BY <1>1, <1>2, FS_EmptySet
  <2>. QED
    BY <2>1, <2>2, <2>3, <2>4, <1>1 DEF CountsRemaining
<1>. QED
  BY <1>1, <1>2, <1>4, <1>5
  DEF PlanInv, EmittedBehindDeps, Cyclic, QueueBehindLastWave, WavesDisjoint, WavesMinimal

\* Every step of the compiler preserves the invariant.
LEMMA PlanNextInv == PlanInv /\ [PlanNext]_planVars => PlanInv'
<1> SUFFICES ASSUME PlanInv, [PlanNext]_planVars PROVE PlanInv'
  OBVIOUS
<1> USE DEF PlanInv
<1>1. CASE RejectUnknown
  <2>1. PlanTypeOK' /\ ~Counted'
    BY <1>1 DEF RejectUnknown, PlanTypeOK, Counted
  <2>2. CountsRemaining' /\ QueueBehindLastWave'
    BY <2>1 DEF CountsRemaining, QueueBehindLastWave
  <2>. QED
    BY <1>1, <2>1, <2>2
    DEF RejectUnknown, EmittedBehindDeps, Cyclic, WavesDisjoint, WavesMinimal, Emitted
<1>2. CASE CountDegrees
  BY <1>2, CountDegreesInv
<1>3. CASE EmitWave
  BY <1>3, EmitWaveInv
<1>4. CASE FinishPlan
  <2>1. Emitted' = Emitted
    BY <1>4 DEF FinishPlan, Emitted
  <2>2. PlanTypeOK'
    BY <1>4 DEF FinishPlan, PlanTypeOK
  <2>3. Counted /\ \A s \in Steps : deps[s] \subseteq Steps
    BY <1>4 DEF FinishPlan, CountsRemaining, Counted
  <2>4. CountsRemaining'
    BY <1>4, <2>1, <2>3 DEF FinishPlan, CountsRemaining
  <2>. QED
    BY <1>4, <2>1, <2>2, <2>3, <2>4 DEF FinishPlan, EmittedBehindDeps, Cyclic,
       QueueBehindLastWave, WavesDisjoint, WavesMinimal
<1>5. CASE UNCHANGED planVars
  <2>1. Emitted' = Emitted /\ (Counted' <=> Counted)
    BY <1>5 DEF planVars, Emitted, Counted
  <2>2. PlanTypeOK' /\ CountsRemaining'
    BY <1>5, <2>1 DEF planVars, PlanTypeOK, CountsRemaining
  <2>. QED
    BY <1>5, <2>1, <2>2 DEF planVars, EmittedBehindDeps, Cyclic, QueueBehindLastWave,
       WavesDisjoint, WavesMinimal
<1>. QED
  BY <1>1, <1>2, <1>3, <1>4, <1>5 DEF PlanNext

\* The invariant decides the graph: what is left over is a cyclic set.
LEMMA PlanInvDecides == PlanInv => AcceptsExactlyDags /\ WavesRespectDeps
<1> SUFFICES ASSUME PlanInv PROVE AcceptsExactlyDags /\ WavesRespectDeps
  OBVIOUS
<1>0. PlanTypeOK /\ Emitted \subseteq Steps
  BY FiniteParts DEF PlanInv
<1>1. ASSUME planPc = "planned" PROVE Emitted = Steps
  <2>1. Cardinality(Emitted) = Cardinality(Steps)
    BY <1>1 DEF PlanInv, CountsRemaining, Counted
  <2>. QED
    BY <2>1, <1>0, StepsAssumption, FS_Subset
<1>2. planPc = "planned" => Acyclic
  BY <1>1 DEF PlanInv, CountsRemaining, Counted, EmittedBehindDeps, Acyclic
<1>3. planPc = "rejected" => ~Acyclic
  <2> SUFFICES ASSUME planPc = "rejected", \A s \in Steps : deps[s] \subseteq Steps
               PROVE  \E C \in SUBSET Steps : Cyclic(C) /\ C # {}
    BY DEF Acyclic
  <2> DEFINE C == Steps \ Emitted
  <2>1. Counted
    BY DEF Counted
  <2>2. Cyclic(C)
    BY <2>1 DEF Cyclic, PlanInv, CountsRemaining
  <2>3. C # {}
    <3> SUFFICES ASSUME Emitted = Steps PROVE FALSE
      BY <1>0
    <3>. QED
      BY <2>1 DEF PlanInv, CountsRemaining
  <2>. QED
    BY <2>2, <2>3
<1>4. WavesRespectDeps
  BY <1>1 DEF WavesRespectDeps, PlanInv, EmittedBehindDeps
<1>. QED
  BY <1>2, <1>3, <1>4 DEF AcceptsExactlyDags

\* Type correctness of the plan compiler, for every finite set of steps.
THEOREM PlanTypeCorrect == PlanSpec => []PlanTypeOK
<1>1. PlanInv => PlanTypeOK
  BY DEF PlanInv
<1>. QED
  BY <1>1, PlanInitInv, PlanNextInv, PTL DEF PlanSpec

\* BuildDAG accepts a composition exactly when its dependency graph has no
\* cycle and no unknown name.
THEOREM PlanAcceptsExactlyDags == PlanSpec => []AcceptsExactlyDags
<1>1. PlanInv => AcceptsExactlyDags
  BY PlanInvDecides
<1>. QED
  BY <1>1, PlanInitInv, PlanNextInv, PTL DEF PlanSpec

\* An accepted plan holds every step, behind its dependencies.
THEOREM PlanWavesRespectDeps == PlanSpec => []WavesRespectDeps
<1>1. PlanInv => WavesRespectDeps
  BY PlanInvDecides
<1>. QED
  BY <1>1, PlanInitInv, PlanNextInv, PTL DEF PlanSpec

\* The waves are pairwise disjoint, and no wave can be merged into its predecessor.
THEOREM PlanWavesTight == PlanSpec => [](WavesDisjoint /\ WavesMinimal)
<1>1. PlanInv => WavesDisjoint /\ WavesMinimal
  BY DEF PlanInv
<1>. QED
  BY <1>1, PlanInitInv, PlanNextInv, PTL DEF PlanSpec

-----------------------------------------------------------------------------
(* The executor                                                            *)

Running(s) == stepPc[s] \in {"spawned", "skip", "send"}

\* Where the steps are: those of later waves wait, those of earlier ones returned.
StepsFollowWaves ==
  /\ wave <= Len(waves)
  /\ execPc \in {"wave", "failed"} => wave >= 1
  /\ planPc # "planned" => execPc = "between" /\ wave = 0 /\ \A s \in Steps : stepPc[s] = "idle"
  /\ execPc = "complete" => wave = Len(waves)
  /\ \A s \in Steps : Running(s) => execPc = "wave" /\ s \in waves[wave]
  /\ \A i \in DOMAIN waves : \A s \in waves[i] : i > wave <=> stepPc[s] = "idle"

\* What a step has left behind.
StepLeaves(s) ==
  /\ stepPc[s] # "done" => results[s] = "unset" /\ timing[s] = "none"
  /\ stepPc[s] = "done" => /\ timing[s] \in {"success", "failed", "skipped"}
                           /\ results[s] = IF timing[s] = "success" THEN "value" ELSE "nil"

\* A step that sent, or is about to, has the results of its dependencies.
StepSendsWithAll(s) ==
  stepPc[s] = "send" \/ timing[s] \in {"success", "failed"} =>
    \A d \in deps[s] : results[d] = "value"

\* C holds the dependents of its members.
Closed(C) == \A t \in Steps : deps[t] \cap C # {} => t \in C

Failed == {s \in Steps : timing[s] = "failed"}

\* A step skips only behind a failure.
SkipsBehindFailures ==
  \A C \in SUBSET Steps : Closed(C) /\ Failed \subseteq C =>
    \A s \in Steps : stepPc[s] = "skip" \/ timing[s] = "skipped" => s \in C

ErrorSteps(errs) == {errs[i].step : i \in DOMAIN errs}

Distinct(errs) == \A i, j \in DOMAIN errs : errs[i].step = errs[j].step => i = j

\* A list with a required failure has a first one.
HasFirst(errs) ==
  HasRequiredFailure(errs) =>
    \E i \in DOMAIN errs :
      /\ ~errs[i].optional
      /\ \A j \in DOMAIN errs : ~errs[j].optional => i <= j

Required == {s \in Steps \ optional : timing[s] = "failed"}

\* Which errors are in which list.
ErrorsAccounted ==
  /\ Distinct(allErrors) /\ Distinct(waveErrors) /\ HasFirst(waveErrors)
  /\ \A s \in ErrorSteps(allErrors) \cup ErrorSteps(waveErrors) : stepPc[s] = "done"
  /\ execPc = "wave" => ErrorSteps(allErrors) \cap ErrorSteps(waveErrors) = {}
  /\ \A i \in DOMAIN waveErrors : ~waveErrors[i].optional => waveErrors[i].step \in Required
  /\ \A s \in Steps : timing[s] \in {"failed", "skipped"} =>
       s \in ErrorSteps(allErrors) \/ (execPc = "wave" /\ s \in ErrorSteps(waveErrors))
  /\ execPc = "wave" /\ Required # {} => HasRequiredFailure(waveErrors)
  /\ execPc = "failed" => HasRequiredFailure(waveErrors)
  /\ execPc \in {"between", "complete"} => Required = {}

\* What a reply of a completed run was made from.
ReplySound ==
  reply.code = 200 =>
    /\ execPc = "answered"
    /\ \A s \in Steps : stepPc[s] = "done"
    /\ reply.complete <=> allErrors = <<>>
    /\ reply.nulls = FailedSteps
    /\ bodyIsObject => reply.errors = BuildErrorsArray(allErrors)

ExecInv ==
  /\ PlanInv
  /\ ExecTypeOK
  /\ StepsFollowWaves
  /\ \A s \in Steps : StepLeaves(s) /\ StepSendsWithAll(s)
  /\ SkipsBehindFailures
  /\ ErrorsAccounted
  /\ ReplySound

LEMMA ExecInvInit == Init => ExecInv
<1> SUFFICES ASSUME Init PROVE ExecInv
  OBVIOUS
<1> USE DEF Init, ExecInit
<1>1. PlanInv /\ planPc = "validate" /\ waves = <<>>
  BY PlanInitInv DEF PlanInit
<1>2. ExecTypeOK
  <2>1. bodyIsObject \in BOOLEAN /\ clientGone \in BOOLEAN
    BY Zenon
  <2>2. waveErrors \in Seq(StepError) /\ allErrors \in Seq(StepError)
    OBVIOUS
  <2> QED BY <2>1, <2>2 DEF ExecTypeOK
<1>3. StepsFollowWaves
  <2>1. Len(waves) = 0 /\ DOMAIN waves = {}
    BY <1>1
  <2> QED BY <2>1 DEF StepsFollowWaves, Running
<1>4. \A s \in Steps : StepLeaves(s) /\ StepSendsWithAll(s)
  BY DEF StepLeaves, StepSendsWithAll
<1>5. SkipsBehindFailures
  BY DEF SkipsBehindFailures
<1>6. ErrorsAccounted
  BY DEF ErrorsAccounted, Distinct, HasFirst, HasRequiredFailure, ErrorSteps, Required
<1>7. ReplySound
  BY DEF ReplySound, NoReply
<1> QED BY <1>1, <1>2, <1>3, <1>4, <1>5, <1>6, <1>7 DEF ExecInv

-----------------------------------------------------------------------------
(* Facts about error lists                                                 *)

\* Errors name steps.
LEMMA ErrorsNameSteps ==
  ASSUME NEW errs \in Seq(StepError)
  PROVE  ErrorSteps(errs) \subseteq Steps
<1>1. \A i \in DOMAIN errs : errs[i] \in StepError
  OBVIOUS
<1>2. \A e \in StepError : e.step \in Steps
  BY DEF StepError
<1> QED BY <1>1, <1>2 DEF ErrorSteps

\* One error is added to a list.
LEMMA AddedError ==
  ASSUME NEW errs \in Seq(StepError), NEW e \in StepError
  PROVE  /\ errs \o <<e>> \in Seq(StepError)
         /\ DOMAIN (errs \o <<e>>) = 1..(Len(errs) + 1)
         /\ \A i \in DOMAIN errs : (errs \o <<e>>)[i] = errs[i]
         /\ (errs \o <<e>>)[Len(errs) + 1] = e
         /\ ErrorSteps(errs \o <<e>>) = ErrorSteps(errs) \cup {e.step}
<1> DEFINE new == errs \o <<e>>
<1>1. <<e>> \in Seq(StepError) /\ Len(<<e>>) = 1
  OBVIOUS
<1>2. new \in Seq(StepError) /\ Len(new) = Len(errs) + 1
  BY <1>1, ConcatProperties
<1>3. \A i \in 1..Len(errs) : new[i] = errs[i]
  BY <1>1, ConcatProperties
<1>4. new[Len(errs) + 1] = e
  BY <1>1, ConcatProperties
<1>5. DOMAIN new = 1..(Len(errs) + 1) /\ DOMAIN errs = 1..Len(errs) /\ Len(errs) \in Nat
  BY <1>2
<1> HIDE DEF new
<1>6. ErrorSteps(new) = ErrorSteps(errs) \cup {e.step}
  BY <1>3, <1>4, <1>5 DEF ErrorSteps
<1> QED BY <1>2, <1>3, <1>4, <1>5, <1>6 DEF new

\* The errors of a wave are kept after those of the waves before it.
LEMMA JoinedErrors ==
  ASSUME NEW a \in Seq(StepError), NEW b \in Seq(StepError)
  PROVE  /\ a \o b \in Seq(StepError)
         /\ ErrorSteps(a \o b) = ErrorSteps(a) \cup ErrorSteps(b)
         /\ Distinct(a) /\ Distinct(b) /\ ErrorSteps(a) \cap ErrorSteps(b) = {} => Distinct(a \o b)
<1> DEFINE new == a \o b
<1>1. new \in Seq(StepError) /\ Len(new) = Len(a) + Len(b)
  BY ConcatProperties
<1>2. \A i \in 1..(Len(a) + Len(b)) : new[i] = IF i <= Len(a) THEN a[i] ELSE b[i - Len(a)]
  BY ConcatProperties
<1>3. /\ DOMAIN new = 1..(Len(a) + Len(b)) /\ DOMAIN a = 1..Len(a) /\ DOMAIN b = 1..Len(b)
      /\ Len(a) \in Nat /\ Len(b) \in Nat
  BY <1>1
<1> HIDE DEF new
<1>4. \A i \in DOMAIN a : i \in DOMAIN new /\ new[i] = a[i]
  BY <1>2, <1>3
<1>5. \A i \in DOMAIN b : Len(a) + i \in DOMAIN new /\ new[Len(a) + i] = b[i]
  BY <1>2, <1>3
<1>6. \A i \in DOMAIN new : \/ i \in DOMAIN a /\ new[i] = a[i]
                            \/ i - Len(a) \in DOMAIN b /\ new[i] = b[i - Len(a)] /\ i > Len(a)
  BY <1>2, <1>3
<1>7. ErrorSteps(new) = ErrorSteps(a) \cup ErrorSteps(b)
  BY <1>4, <1>5, <1>6 DEF ErrorSteps
<1>8. ASSUME Distinct(a), Distinct(b), ErrorSteps(a) \cap ErrorSteps(b) = {},
             NEW i \in DOMAIN new, NEW j \in DOMAIN new, new[i].step = new[j].step
      PROVE  i = j
  <2>1. CASE i \in DOMAIN a /\ new[i] = a[i] /\ j \in DOMAIN a /\ new[j] = a[j]
    BY <1>8, <2>1 DEF Distinct
  <2>2. CASE /\ i - Len(a) \in DOMAIN b /\ new[i] = b[i - Len(a)]
             /\ j - Len(a) \in DOMAIN b /\ new[j] = b[j - Len(a)]
    <3>1. i - Len(a) = j - Len(a)
      BY <1>8, <2>2 DEF Distinct
    <3> QED BY <1>3, <3>1
  <2>3. CASE i \in DOMAIN a /\ new[i] = a[i] /\ j - Len(a) \in DOMAIN b /\ new[j] = b[j - Len(a)]
    BY <1>8, <2>3 DEF ErrorSteps
  <2>4. CASE j \in DOMAIN a /\ new[j] = a[j] /\ i - Len(a) \in DOMAIN b /\ new[i] = b[i - Len(a)]
    BY <1>8, <2>4 DEF ErrorSteps
  <2> QED BY <1>6, <2>1, <2>2, <2>3, <2>4
<1>9. Distinct(a) /\ Distinct(b) /\ ErrorSteps(a) \cap ErrorSteps(b) = {} => Distinct(new)
  BY <1>8 DEF Distinct
<1> QED BY <1>1, <1>7, <1>9 DEF new

-----------------------------------------------------------------------------
(* Steps of the plan, of the waves and of the reply                        *)

\* Compiling the plan happens before any step runs.
LEMMA PlanKeeps ==
  ASSUME ExecInv, PlanNext, UNCHANGED execVars
  PROVE  ExecInv'
<1> USE DEF ExecInv, execVars
<1>1. PlanInv'
  BY PlanNextInv
<1>2. planPc # "planned" /\ deps' = deps
  BY DEF PlanNext, RejectUnknown, CountDegrees, EmitWave, FinishPlan
<1>3. ExecTypeOK'
  BY DEF ExecTypeOK
<1>4. StepsFollowWaves'
  <2>1. execPc = "between" /\ wave = 0 /\ \A s \in Steps : stepPc[s] = "idle"
    BY <1>2 DEF StepsFollowWaves
  <2>2. waves' \in Seq(SUBSET Steps)
    BY <1>1 DEF PlanInv, PlanTypeOK
  <2>3. Len(waves') \in Nat /\ \A i \in DOMAIN waves' : i > 0 /\ waves'[i] \subseteq Steps
    BY <2>2
  <2> QED BY <2>1, <2>3 DEF StepsFollowWaves, Running
<1>5. \A s \in Steps : StepLeaves(s)' /\ StepSendsWithAll(s)'
  BY <1>2 DEF StepLeaves, StepSendsWithAll
<1>6. SkipsBehindFailures'
  BY <1>2 DEF SkipsBehindFailures, Closed, Failed
<1>7. ErrorsAccounted'
  BY DEF ErrorsAccounted, Required
<1>8. ReplySound'
  BY DEF ReplySound, FailedSteps
<1> QED BY <1>1, <1>3, <1>4, <1>5, <1>6, <1>7, <1>8

\* What a step of Execute leaves alone when it changes neither plan nor results.
LEMMA AsideKeeps ==
  ASSUME ExecInv, UNCHANGED <<planVars, configVars, results, timing>>
  PROVE  /\ PlanInv'
         /\ \A C : Closed(C)' <=> Closed(C)
         /\ Failed' = Failed /\ Required' = Required /\ FailedSteps' = FailedSteps
<1>1. PlanInv'
  BY PlanNextInv DEF ExecInv
<1> QED BY <1>1 DEF planVars, configVars, Closed, Failed, Required, FailedSteps

\* The steps of the next wave start; none of them has run.
LEMMA StartWaveKeeps ==
  ASSUME ExecInv, StartWave
  PROVE  ExecInv'
<1> USE DEF ExecInv
<1>0. /\ UNCHANGED <<planVars, configVars, results, timing>> /\ UNCHANGED <<allErrors, reply>>
      /\ deps' = deps /\ waves' = waves /\ planPc' = planPc /\ optional' = optional
      /\ results' = results /\ timing' = timing
  BY DEF StartWave, planVars, configVars
<1>1. /\ waves \in Seq(SUBSET Steps) /\ WavesDisjoint
      /\ wave \in Nat /\ stepPc \in [Steps -> {"idle", "spawned", "skip", "send", "done"}]
  BY DEF PlanInv, PlanTypeOK, ExecTypeOK
<1>2. wave + 1 \in DOMAIN waves /\ wave' = wave + 1 /\ execPc = "between" /\ execPc' = "wave"
  BY <1>1 DEF StartWave
<1>3. \A s \in Steps : stepPc'[s] = IF s \in waves[wave + 1] THEN "spawned" ELSE stepPc[s]
  BY DEF StartWave
<1>4. \A s \in waves[wave + 1] : s \in Steps /\ stepPc[s] = "idle"
  BY <1>1, <1>2 DEF StepsFollowWaves
<1>5. ExecTypeOK'
  BY <1>0, <1>1, <1>2 DEF ExecTypeOK, StartWave, configVars
<1>6. StepsFollowWaves'
  <2>1. \A s \in Steps : Running(s)' => s \in waves[wave + 1]
    BY <1>2, <1>3 DEF StepsFollowWaves, Running
  <2>2. ASSUME NEW i \in DOMAIN waves, NEW s \in waves[i]
        PROVE  i > wave + 1 <=> stepPc'[s] = "idle"
    <3>1. CASE i = wave + 1
      BY <1>1, <1>3, <1>4, <3>1
    <3>2. CASE i # wave + 1
      <4>1. s \notin waves[wave + 1] /\ s \in Steps
        BY <1>1, <1>2, <3>2 DEF WavesDisjoint
      <4>2. i > wave <=> stepPc[s] = "idle"
        BY DEF StepsFollowWaves
      <4> QED BY <1>1, <1>3, <3>2, <4>1, <4>2
    <3> QED BY <3>1, <3>2
  <2>3. planPc = "planned" /\ wave + 1 <= Len(waves) /\ wave + 1 >= 1
    BY <1>1, <1>2 DEF StartWave
  <2> QED BY <1>0, <1>2, <2>1, <2>2, <2>3 DEF StepsFollowWaves
<1>7. \A s \in Steps : StepLeaves(s)' /\ StepSendsWithAll(s)'
  BY <1>0, <1>3, <1>4 DEF StepLeaves, StepSendsWithAll
<1>8. SkipsBehindFailures'
  BY <1>0, <1>3, AsideKeeps DEF SkipsBehindFailures
<1>9. ErrorsAccounted'
  <2>1. waveErrors' = <<>> /\ ErrorSteps(<<>>) = {} /\ allErrors' = allErrors
    BY <1>0 DEF StartWave, ErrorSteps
  <2>2. Distinct(<<>>) /\ HasFirst(<<>>)
    BY DEF Distinct, HasFirst, HasRequiredFailure
  <2>3. Required = {} /\ Required' = {}
    BY <1>0, <1>2, AsideKeeps DEF ErrorsAccounted
  <2>4. \A s \in ErrorSteps(allErrors) : stepPc'[s] = "done"
    <3>1. \A s \in ErrorSteps(allErrors) : s \in Steps
      BY ErrorsNameSteps DEF ExecTypeOK
    <3>2. \A s \in ErrorSteps(allErrors) : stepPc[s] = "done"
      BY DEF ErrorsAccounted
    <3> QED BY <1>3, <1>4, <3>1, <3>2
  <2> QED BY <1>0, <1>2, <2>1, <2>2, <2>3, <2>4 DEF ErrorsAccounted
<1>10. ReplySound'
  BY <1>0, <1>2 DEF ReplySound
<1> QED BY <1>0, <1>5, <1>6, <1>7, <1>8, <1>9, <1>10, AsideKeeps

\* The wave has returned, and its errors are looked at.
LEMMA JoinWaveKeeps ==
  ASSUME ExecInv, JoinWave
  PROVE  ExecInv'
<1> USE DEF ExecInv
<1>0. /\ UNCHANGED <<planVars, configVars, results, timing>> /\ UNCHANGED <<waveErrors, reply>>
      /\ deps' = deps /\ waves' = waves /\ planPc' = planPc /\ optional' = optional
      /\ results' = results /\ timing' = timing /\ stepPc' = stepPc /\ wave' = wave
      /\ execPc = "wave" /\ allErrors' = allErrors \o waveErrors
      /\ execPc' = IF HasRequiredFailure(waveErrors) THEN "failed" ELSE "between"
  BY DEF JoinWave, planVars, configVars
<1>1. allErrors \in Seq(StepError) /\ waveErrors \in Seq(StepError)
  BY DEF ExecTypeOK
<1>2. /\ allErrors' \in Seq(StepError) /\ Distinct(allErrors')
      /\ ErrorSteps(allErrors') = ErrorSteps(allErrors) \cup ErrorSteps(waveErrors)
  BY <1>0, <1>1, JoinedErrors DEF ErrorsAccounted
<1>3. \A s \in Steps : ~Running(s)
  BY DEF JoinWave, StepsFollowWaves, Running
<1>4. ExecTypeOK'
  BY <1>0, <1>2 DEF ExecTypeOK, configVars, JoinWave
<1>5. StepsFollowWaves'
  BY <1>0, <1>3 DEF StepsFollowWaves, Running
<1>6. \A s \in Steps : StepLeaves(s)' /\ StepSendsWithAll(s)'
  BY <1>0 DEF StepLeaves, StepSendsWithAll
<1>7. SkipsBehindFailures'
  BY <1>0, AsideKeeps DEF SkipsBehindFailures
<1>8. ErrorsAccounted'
  <2>1. Required' = Required
    BY <1>0, AsideKeeps
  <2> QED BY <1>0, <1>2, <2>1 DEF ErrorsAccounted
<1>9. ReplySound'
  BY <1>0 DEF ReplySound
<1> QED BY <1>0, <1>4, <1>5, <1>6, <1>7, <1>8, <1>9, AsideKeeps

\* Once every wave has run, every step has returned.
LEMMA CompleteMeansDone ==
  ASSUME ExecInv, planPc = "planned", wave = Len(waves), execPc # "wave"
  PROVE  \A s \in Steps : stepPc[s] = "done"
<1> USE DEF ExecInv
<1>1. Emitted = Steps
  BY PlanInvDecides DEF WavesRespectDeps
<1> SUFFICES ASSUME NEW s \in Steps PROVE stepPc[s] = "done"
  OBVIOUS
<1>2. PICK i \in DOMAIN waves : s \in waves[i]
  BY <1>1 DEF Emitted
<1>3. i <= wave /\ i \in Nat /\ wave \in Nat
  BY DEF PlanInv, PlanTypeOK
<1>4. stepPc[s] # "idle"
  BY <1>2, <1>3 DEF StepsFollowWaves
<1> QED BY <1>4 DEF StepsFollowWaves, Running, ExecTypeOK

\* Execute and serveComposition move on after the waves; the client may leave.
LEMMA AfterwardsKeeps ==
  ASSUME ExecInv, Complete \/ RespondError \/ Respond \/ ClientLeaves
  PROVE  ExecInv'
<1> USE DEF ExecInv
<1>0. /\ UNCHANGED <<planVars, configVars, results, timing>>
      /\ deps' = deps /\ waves' = waves /\ planPc' = planPc
      /\ optional' = optional /\ statusRef' = statusRef /\ bodyIsObject' = bodyIsObject
      /\ results' = results /\ timing' = timing /\ stepPc' = stepPc /\ wave' = wave
      /\ waveErrors' = waveErrors /\ allErrors' = allErrors
      /\ clientGone' \in {clientGone, TRUE}
  BY DEF Complete, RespondError, Respond, ClientLeaves, planVars, configVars
<1>1. \/ execPc' = execPc /\ reply' = reply
      \/ /\ planPc = "planned" /\ execPc = "between" /\ wave = Len(waves)
         /\ execPc' = "complete" /\ reply' = reply
      \/ RespondError
      \/ Respond
  BY DEF Complete, ClientLeaves
<1>2. /\ execPc' = execPc \/ (execPc # "wave" /\ execPc' \in {"complete", "answered"})
      /\ execPc' = "complete" => execPc = "complete" \/ (execPc = "between" /\ wave = Len(waves))
      /\ execPc' # execPc => planPc = "planned"
  <2>1. RespondError \/ Respond => execPc \in {"failed", "complete"} /\ execPc' = "answered"
    BY DEF RespondError, Respond
  <2>2. execPc \in {"failed", "complete"} => planPc = "planned"
    BY DEF StepsFollowWaves
  <2>3. CASE execPc' = execPc
    BY <2>3
  <2>4. CASE planPc = "planned" /\ execPc = "between" /\ wave = Len(waves) /\ execPc' = "complete"
    BY <2>4
  <2>5. CASE RespondError \/ Respond
    BY <2>1, <2>2, <2>5
  <2> QED BY <1>1, <2>3, <2>4, <2>5
<1>3. ExecTypeOK'
  <2>1. clientGone' \in BOOLEAN
    BY <1>0 DEF ExecTypeOK
  <2> QED BY <1>0, <1>2, <2>1 DEF ExecTypeOK
<1>4. StepsFollowWaves'
  BY <1>0, <1>2 DEF StepsFollowWaves, Running
<1>5. \A s \in Steps : StepLeaves(s)' /\ StepSendsWithAll(s)'
  BY <1>0 DEF StepLeaves, StepSendsWithAll
<1>6. SkipsBehindFailures'
  BY <1>0, AsideKeeps DEF SkipsBehindFailures
<1>7. ErrorsAccounted'
  <2>1. Required' = Required
    BY <1>0, AsideKeeps
  <2> QED BY <1>0, <1>2, <2>1 DEF ErrorsAccounted
<1>8. ReplySound'
  <2>1. FailedSteps' = FailedSteps
    BY <1>0, AsideKeeps
  <2>2. CASE execPc' = execPc /\ reply' = reply
    BY <1>0, <2>1, <2>2 DEF ReplySound
  <2>3. CASE execPc = "between" /\ reply' = reply
    BY <2>3 DEF ReplySound
  <2>4. CASE RespondError
    <3>1. reply'.code # 200
      BY <2>4 DEF RespondError, ErrorReply, NoReply
    <3> QED BY <3>1 DEF ReplySound
  <2>5. CASE Respond
    <3>1. \A s \in Steps : stepPc[s] = "done"
      <4>1. execPc = "complete" /\ wave = Len(waves) /\ planPc = "planned"
        BY <2>5 DEF Respond, StepsFollowWaves
      <4> QED BY <4>1, CompleteMeansDone
    <3>2. CASE statusRef \in FailedSteps
      <4>1. reply'.code = 500
        BY <2>5, <3>2 DEF Respond, ErrorReply, NoReply
      <4> QED BY <4>1 DEF ReplySound
    <3>3. CASE statusRef \notin FailedSteps
      <4>1. /\ execPc' = "answered"
            /\ reply'.complete = (allErrors = <<>>) /\ reply'.nulls = FailedSteps
            /\ bodyIsObject => reply'.errors = BuildErrorsArray(allErrors)
        BY <2>5, <3>3 DEF Respond
      <4> QED BY <1>0, <2>1, <3>1, <4>1 DEF ReplySound
    <3> QED BY <3>2, <3>3
  <2> QED BY <1>1, <2>2, <2>3, <2>4, <2>5
<1> QED BY <1>0, <1>3, <1>4, <1>5, <1>6, <1>7, <1>8, AsideKeeps

-----------------------------------------------------------------------------
(* Steps of one goroutine                                                  *)

\* A dependency in an accepted plan is a step.
LEMMA DependencyIsStep ==
  ASSUME ExecInv, planPc = "planned", NEW s \in Steps, NEW d \in deps[s]
  PROVE  d \in Steps
BY PlanInvDecides DEF ExecInv, AcceptsExactlyDags, Acyclic

\* The dependencies of a running step have returned.
LEMMA DependenciesReturned ==
  ASSUME ExecInv, NEW s \in Steps, Running(s), NEW d \in deps[s]
  PROVE  d \in Steps /\ stepPc[d] = "done"
<1> USE DEF ExecInv
<1>1. /\ execPc = "wave" /\ wave \in DOMAIN waves /\ s \in waves[wave] /\ planPc = "planned"
      /\ waves \in Seq(SUBSET Steps) /\ wave \in Nat
  BY DEF StepsFollowWaves, ExecTypeOK, PlanInv, PlanTypeOK
<1>2. PICK j \in DOMAIN waves : j < wave /\ d \in waves[j]
  BY <1>1, PlanInvDecides DEF WavesRespectDeps
<1>3. d \in Steps /\ d \notin waves[wave]
  BY <1>1, <1>2 DEF PlanInv, WavesDisjoint
<1>4. stepPc[d] # "idle"
  BY <1>1, <1>2 DEF StepsFollowWaves
<1> QED BY <1>3, <1>4 DEF StepsFollowWaves, Running, ExecTypeOK

\* A goroutine looks at its dependencies.
LEMMA CheckDepsKeeps ==
  ASSUME ExecInv, NEW s \in Steps, CheckDeps(s)
  PROVE  ExecInv'
<1> USE DEF ExecInv
<1>0. /\ UNCHANGED <<planVars, configVars, results, timing>>
      /\ deps' = deps /\ waves' = waves /\ planPc' = planPc
      /\ optional' = optional /\ statusRef' = statusRef /\ bodyIsObject' = bodyIsObject
      /\ results' = results /\ timing' = timing /\ wave' = wave /\ execPc' = execPc
      /\ waveErrors' = waveErrors /\ allErrors' = allErrors
      /\ clientGone' = clientGone /\ reply' = reply
  BY DEF CheckDeps, planVars, configVars
<1>1. stepPc \in [Steps -> {"idle", "spawned", "skip", "send", "done"}]
  BY DEF ExecTypeOK
<1>2. /\ stepPc[s] = "spawned" /\ Running(s)
      /\ \A t \in Steps : t # s => stepPc'[t] = stepPc[t]
      /\ stepPc'[s] = IF checkDependenciesFailed(s) THEN "skip" ELSE "send"
      /\ stepPc' \in [Steps -> {"idle", "spawned", "skip", "send", "done"}]
  BY <1>1 DEF CheckDeps, Running
<1>3. ExecTypeOK'
  BY <1>0, <1>2 DEF ExecTypeOK
<1>4. StepsFollowWaves'
  <2>1. waves \in Seq(SUBSET Steps)
    BY DEF PlanInv, PlanTypeOK
  <2>2. \A t \in Steps : (Running(t)' <=> Running(t)) /\ (stepPc'[t] = "idle" <=> stepPc[t] = "idle")
    BY <1>2 DEF Running
  <2>3. \A i \in DOMAIN waves : waves[i] \subseteq Steps
    BY <2>1
  <2> QED BY <1>0, <2>2, <2>3 DEF StepsFollowWaves
<1>5. \A t \in Steps : StepLeaves(t)' /\ StepSendsWithAll(t)'
  BY <1>0, <1>2 DEF StepLeaves, StepSendsWithAll, checkDependenciesFailed
<1>6. SkipsBehindFailures'
  <2> SUFFICES ASSUME NEW C \in SUBSET Steps, Closed(C), Failed \subseteq C,
                      NEW t \in Steps, stepPc'[t] = "skip" \/ timing[t] = "skipped"
               PROVE  t \in C
    BY <1>0, AsideKeeps DEF SkipsBehindFailures
  <2>1. CASE stepPc[t] = "skip" \/ timing[t] = "skipped"
    BY <2>1 DEF SkipsBehindFailures
  <2>2. CASE t = s /\ stepPc'[s] = "skip"
    <3>1. PICK d \in deps[s] : results[d] # "value"
      BY <1>2, <2>2 DEF checkDependenciesFailed
    <3>2. d \in Steps /\ timing[d] \in {"failed", "skipped"}
      BY <1>2, <3>1, DependenciesReturned DEF StepLeaves
    <3>3. d \in C
      BY <3>2 DEF SkipsBehindFailures, Failed
    <3> QED BY <2>2, <3>1, <3>3 DEF Closed
  <2> QED BY <1>2, <2>1, <2>2
<1>7. ErrorsAccounted'
  <2>1. Required' = Required
    BY <1>0, AsideKeeps
  <2>2. \A t \in ErrorSteps(allErrors) \cup ErrorSteps(waveErrors) : stepPc'[t] = "done"
    <3>1. ErrorSteps(allErrors) \cup ErrorSteps(waveErrors) \subseteq Steps
      BY ErrorsNameSteps DEF ExecTypeOK
    <3>2. \A t \in ErrorSteps(allErrors) \cup ErrorSteps(waveErrors) : stepPc[t] = "done"
      BY DEF ErrorsAccounted
    <3> QED BY <1>2, <3>1, <3>2
  <2> QED BY <1>0, <2>1, <2>2 DEF ErrorsAccounted
<1>8. ReplySound'
  <2>1. FailedSteps' = FailedSteps
    BY <1>0, AsideKeeps
  <2> QED BY <1>0, <1>2, <2>1 DEF ReplySound
<1> QED BY <1>0, <1>3, <1>4, <1>5, <1>6, <1>7, <1>8, AsideKeeps

\* The errors a step reports that returns with status t.
Reports(s, t, es) ==
  \/ t = "success" /\ es = <<>>
  \/ \E e \in StepError : /\ es = <<e>> /\ e.step = s
                          /\ ~e.optional <=> t = "failed" /\ s \notin optional

\* The goroutine of a step returns.
LEMMA ReturnKeeps ==
  ASSUME ExecInv, NEW s \in Steps, NEW t \in {"success", "failed", "skipped"}, NEW es,
         stepPc[s] = IF t = "skipped" THEN "skip" ELSE "send",
         Reports(s, t, es),
         Return(s, IF t = "success" THEN "value" ELSE "nil", t, es)
  PROVE  ExecInv'
<1> USE DEF ExecInv
<1>0. /\ UNCHANGED planVars
      /\ deps' = deps /\ waves' = waves /\ planPc' = planPc
      /\ optional' = optional /\ statusRef' = statusRef /\ bodyIsObject' = bodyIsObject
      /\ wave' = wave /\ execPc' = execPc /\ allErrors' = allErrors
      /\ clientGone' = clientGone /\ reply' = reply /\ waveErrors' = waveErrors \o es
  BY DEF Return, planVars, configVars
<1>1. /\ stepPc \in [Steps -> {"idle", "spawned", "skip", "send", "done"}]
      /\ results \in [Steps -> {"unset", "nil", "value"}]
      /\ timing \in [Steps -> {"none", "success", "failed", "skipped"}]
      /\ waveErrors \in Seq(StepError) /\ allErrors \in Seq(StepError)
  BY DEF ExecTypeOK
<1>2. /\ stepPc'[s] = "done" /\ timing'[s] = t
      /\ results'[s] = IF t = "success" THEN "value" ELSE "nil"
      /\ \A u \in Steps : u # s => /\ stepPc'[u] = stepPc[u] /\ results'[u] = results[u]
                                   /\ timing'[u] = timing[u]
      /\ stepPc' \in [Steps -> {"idle", "spawned", "skip", "send", "done"}]
      /\ results' \in [Steps -> {"unset", "nil", "value"}]
      /\ timing' \in [Steps -> {"none", "success", "failed", "skipped"}]
  BY <1>1 DEF Return
<1>3. /\ Running(s) /\ execPc = "wave" /\ stepPc[s] \notin {"idle", "done"}
      /\ results[s] = "unset" /\ timing[s] = "none"
  BY DEF Running, StepsFollowWaves, StepLeaves
<1>4. PlanInv'
  BY <1>0, PlanNextInv
<1>5. /\ waveErrors' \in Seq(StepError)
      /\ ErrorSteps(waveErrors') = ErrorSteps(waveErrors) \cup (IF es = <<>> THEN {} ELSE {s})
  <2>1. CASE es = <<>>
    BY <1>0, <1>1, <2>1, ConcatEmptySeq
  <2>2. CASE es # <<>>
    <3>1. PICK e \in StepError : es = <<e>> /\ e.step = s
      BY <2>2 DEF Reports
    <3> QED BY <1>0, <1>1, <2>2, <3>1, AddedError
  <2> QED BY <2>1, <2>2
<1>6. ExecTypeOK'
  BY <1>0, <1>2, <1>5 DEF ExecTypeOK
<1>7. StepsFollowWaves'
  <2>1. \A u \in Steps : (Running(u)' => Running(u)) /\ (stepPc'[u] = "idle" <=> stepPc[u] = "idle")
    BY <1>2, <1>3 DEF Running
  <2>2. waves \in Seq(SUBSET Steps)
    BY DEF PlanInv, PlanTypeOK
  <2>3. \A i \in DOMAIN waves : waves[i] \subseteq Steps
    BY <2>2
  <2> QED BY <1>0, <1>3, <2>1, <2>3 DEF StepsFollowWaves
<1>8. \A u \in Steps : results[u] # "unset" => results'[u] = results[u]
  BY <1>2, <1>3
<1>9. ASSUME NEW u \in Steps PROVE StepLeaves(u)' /\ StepSendsWithAll(u)'
  <2>1. StepLeaves(u)'
    BY <1>2 DEF StepLeaves
  <2>2. ASSUME stepPc[u] = "send" \/ timing[u] \in {"success", "failed"}
        PROVE  \A d \in deps[u] : results'[d] = "value"
    <3>1. \A d \in deps[u] : results[d] = "value"
      BY <2>2 DEF StepSendsWithAll
    <3>2. ASSUME NEW d \in deps[u] PROVE results'[d] = "value"
      <4>1. d \in Steps
        BY DependencyIsStep, <1>3 DEF StepsFollowWaves
      <4> QED BY <1>8, <3>1, <4>1
    <3> QED BY <3>2
  <2> QED BY <1>0, <1>2, <2>1, <2>2 DEF StepSendsWithAll
<1>10. SkipsBehindFailures'
  <2> SUFFICES ASSUME NEW C \in SUBSET Steps, Closed(C)', Failed' \subseteq C,
                      NEW u \in Steps, stepPc'[u] = "skip" \/ timing'[u] = "skipped"
               PROVE  u \in C
    BY DEF SkipsBehindFailures
  <2>1. Closed(C)
    BY <1>0 DEF Closed
  <2>2. Failed \subseteq C
    BY <1>2, <1>3 DEF Failed
  <2>3. stepPc[u] = "skip" \/ timing[u] = "skipped"
    BY <1>2
  <2> QED BY <2>1, <2>2, <2>3 DEF SkipsBehindFailures
<1>11. ErrorsAccounted'
  <2>1. /\ s \notin ErrorSteps(allErrors) /\ s \notin ErrorSteps(waveErrors)
        /\ ErrorSteps(allErrors) \subseteq Steps /\ ErrorSteps(waveErrors) \subseteq Steps
    BY <1>1, <1>3, ErrorsNameSteps DEF ErrorsAccounted
  <2>2. Required' = Required \cup (IF t = "failed" /\ s \notin optional THEN {s} ELSE {})
    BY <1>0, <1>2, <1>3 DEF Required
  <2>3. /\ Distinct(waveErrors') /\ HasFirst(waveErrors')
        /\ \A i \in DOMAIN waveErrors' : ~waveErrors'[i].optional => waveErrors'[i].step \in Required'
        /\ Required' # {} => HasRequiredFailure(waveErrors')
    <3>1. CASE es = <<>> /\ t = "success"
      <4>1. waveErrors' = waveErrors
        BY <1>0, <1>1, <3>1, ConcatEmptySeq
      <4> QED BY <1>3, <2>2, <3>1, <4>1 DEF ErrorsAccounted
    <3>2. ASSUME NEW e \in StepError, es = <<e>>, e.step = s,
                 ~e.optional <=> t = "failed" /\ s \notin optional
          PROVE  /\ Distinct(waveErrors') /\ HasFirst(waveErrors')
                 /\ \A i \in DOMAIN waveErrors' : ~waveErrors'[i].optional => waveErrors'[i].step \in Required'
                 /\ Required' # {} => HasRequiredFailure(waveErrors')
      <4> DEFINE n == Len(waveErrors)
      <4>1. /\ DOMAIN waveErrors' = 1..(n + 1) /\ waveErrors'[n + 1] = e
            /\ \A i \in DOMAIN waveErrors : waveErrors'[i] = waveErrors[i]
        BY <1>0, <1>1, <3>2, AddedError
      <4>2. DOMAIN waveErrors = 1..n /\ n \in Nat
        BY <1>1
      <4> HIDE DEF n
      <4>3. \A i \in DOMAIN waveErrors : waveErrors[i].step # s
        BY <2>1 DEF ErrorSteps
      <4>4. Distinct(waveErrors')
        BY <3>2, <4>1, <4>2, <4>3 DEF ErrorsAccounted, Distinct
      <4>5. HasFirst(waveErrors')
        <5>1. CASE HasRequiredFailure(waveErrors)
          <6>1. PICK i \in DOMAIN waveErrors :
                  ~waveErrors[i].optional /\ \A j \in DOMAIN waveErrors : ~waveErrors[j].optional => i <= j
            BY <5>1 DEF ErrorsAccounted, HasFirst
          <6> QED BY <4>1, <4>2, <6>1 DEF HasFirst
        <5>2. CASE ~HasRequiredFailure(waveErrors)
          BY <4>1, <4>2, <5>2 DEF HasFirst, HasRequiredFailure
        <5> QED BY <5>1, <5>2
      <4>6. ASSUME NEW i \in DOMAIN waveErrors', ~waveErrors'[i].optional
            PROVE  waveErrors'[i].step \in Required'
        <5>1. CASE i = n + 1
          BY <2>2, <3>2, <4>1, <4>6, <5>1
        <5>2. CASE i # n + 1
          BY <2>2, <4>1, <4>2, <4>6, <5>2 DEF ErrorsAccounted
        <5> QED BY <5>1, <5>2
      <4>7. ASSUME Required' # {} PROVE HasRequiredFailure(waveErrors')
        <5>1. CASE Required # {}
          <6>1. HasRequiredFailure(waveErrors)
            BY <1>3, <5>1 DEF ErrorsAccounted
          <6> QED BY <4>1, <4>2, <6>1 DEF HasRequiredFailure
        <5>2. CASE Required = {}
          <6>1. ~e.optional
            BY <2>2, <3>2, <4>7, <5>2
          <6> QED BY <4>1, <4>2, <6>1 DEF HasRequiredFailure
        <5> QED BY <5>1, <5>2
      <4> QED BY <4>4, <4>5, <4>6, <4>7
    <3>3. \/ t = "success" /\ es = <<>>
          \/ \E e \in StepError : /\ es = <<e>> /\ e.step = s
                                  /\ ~e.optional <=> t = "failed" /\ s \notin optional
      BY Zenon DEF Reports
    <3> QED BY <3>1, <3>2, <3>3, Zenon
  <2>4. \A u \in ErrorSteps(allErrors) \cup ErrorSteps(waveErrors') : stepPc'[u] = "done"
    BY <1>2, <1>5, <2>1 DEF ErrorsAccounted
  <2>5. ErrorSteps(allErrors) \cap ErrorSteps(waveErrors') = {}
    BY <1>3, <1>5, <2>1 DEF ErrorsAccounted
  <2>6. \A u \in Steps : timing'[u] \in {"failed", "skipped"} =>
          u \in ErrorSteps(allErrors) \/ u \in ErrorSteps(waveErrors')
    <3>1. t # "success" => es # <<>>
      <4>1. \A e \in StepError : <<e>> # <<>>
        OBVIOUS
      <4> QED BY <4>1, Zenon DEF Reports
    <3> QED BY <1>2, <1>3, <1>5, <3>1 DEF ErrorsAccounted
  <2> QED BY <1>0, <1>3, <2>3, <2>4, <2>5, <2>6 DEF ErrorsAccounted
<1>12. ReplySound'
  BY <1>0, <1>3 DEF ReplySound
<1> QED BY <1>4, <1>6, <1>7, <1>9, <1>10, <1>11, <1>12

LEMMA ExecInvStep == ExecInv /\ [Next]_vars => ExecInv'
<1> SUFFICES ASSUME ExecInv, [Next]_vars PROVE ExecInv'
  OBVIOUS
<1>1. CASE PlanNext /\ UNCHANGED execVars
  BY <1>1, PlanKeeps
<1>2. CASE ExecNext \/ ClientLeaves
  BY <1>2, StartWaveKeeps, JoinWaveKeeps, AfterwardsKeeps DEF ExecNext
<1>3. ASSUME NEW s \in Steps, StepNext(s) PROVE ExecInv'
  <2>1. CASE CheckDeps(s)
    BY <2>1, CheckDepsKeeps
  <2>2. CASE Skip(s)
    <3> DEFINE e == [step |-> s, optional |-> TRUE, err |-> "dependency_failed"]
    <3>1. e \in StepError /\ e.step = s /\ e.optional = TRUE
      BY DEF StepError
    <3>2. stepPc[s] = "skip" /\ Return(s, "nil", "skipped", <<e>>)
      BY <2>2 DEF Skip
    <3>3. Reports(s, "skipped", <<e>>)
      BY <3>1 DEF Reports
    <3> HIDE DEF e
    <3> QED BY <3>2, <3>3, ReturnKeeps
  <2>3. CASE Succeed(s)
    <3>1. stepPc[s] = "send" /\ Return(s, "value", "success", <<>>) /\ Reports(s, "success", <<>>)
      BY <2>3 DEF Succeed, Reports
    <3> QED BY <3>1, ReturnKeeps
  <2>4. CASE SucceedByRule(s)
    <3> DEFINE e == [step |-> s, optional |-> TRUE, err |-> "rule"]
    <3>1. e \in StepError /\ e.step = s /\ e.optional = TRUE
      BY DEF StepError
    <3>2. stepPc[s] = "send" /\ Return(s, "value", "success", <<e>>)
      BY <2>4 DEF SucceedByRule
    <3>3. Reports(s, "success", <<e>>)
      BY <3>1 DEF Reports
    <3> HIDE DEF e
    <3> QED BY <3>2, <3>3, ReturnKeeps
  <2>5. ASSUME NEW k \in FailureKinds, Fail(s, k) PROVE ExecInv'
    <3> DEFINE e == [step |-> s, optional |-> s \in optional, err |-> k]
    <3>1. e \in StepError /\ e.step = s /\ e.optional = (s \in optional)
      BY DEF StepError, FailureKinds
    <3>2. stepPc[s] = "send" /\ Return(s, "nil", "failed", <<e>>)
      BY <2>5 DEF Fail
    <3>3. Reports(s, "failed", <<e>>)
      BY <3>1 DEF Reports
    <3> HIDE DEF e
    <3> QED BY <3>2, <3>3, ReturnKeeps
  <2> QED BY <1>3, <2>1, <2>2, <2>3, <2>4, <2>5 DEF StepNext
<1>4. CASE UNCHANGED vars
  <2>1. PlanInv'
    BY <1>4, PlanNextInv DEF vars, ExecInv
  <2>2. UNCHANGED planVars /\ UNCHANGED execVars
    BY <1>4 DEF vars
  <2> QED BY <2>1, <2>2
        DEF planVars, execVars, ExecInv, ExecTypeOK, StepsFollowWaves, Running, StepLeaves,
            StepSendsWithAll, SkipsBehindFailures, Closed, Failed, ErrorsAccounted, Required,
            ReplySound, FailedSteps
<1> QED BY <1>1, <1>2, <1>3, <1>4 DEF Next

LEMMA ExecInvAlways == Spec => []ExecInv
BY ExecInvInit, ExecInvStep, PTL DEF Spec

-----------------------------------------------------------------------------
(* Theorems                                                                *)

\* Execute, checkDependenciesFailed: in every composition, an upstream is called only
\* with the results of all the step's dependencies.
THEOREM ExecutorSendsWithDependencies == Spec => []SendsWithDependencies
<1>1. ExecInv => SendsWithDependencies
  BY DEF ExecInv, StepSendsWithAll, SendsWithDependencies
<1> QED BY <1>1, ExecInvAlways, PTL

\* Execute, checkDependenciesFailed: in every composition, a run to completion has
\* skipped exactly the steps behind a failure.
THEOREM ExecutorSkipsExactlyDownstream == Spec => []SkipsExactlyDownstream
<1>1. ASSUME ExecInv PROVE SkipsExactlyDownstream
  <2> USE <1>1 DEF ExecInv
  <2> SUFFICES ASSUME execPc = "complete"
               PROVE  \A s \in Steps : /\ timing[s] = "skipped" <=> s \in Downstream(Failed) \ Failed
                                       /\ results[s] = "nil" <=> timing[s] \in {"failed", "skipped"}
    BY DEF SkipsExactlyDownstream, Failed
  <2>1. planPc = "planned" /\ wave = Len(waves)
    BY DEF StepsFollowWaves
  <2>2. \A s \in Steps : stepPc[s] = "done"
    BY <2>1, CompleteMeansDone
  <2>3. \A s \in Steps : /\ timing[s] \in {"success", "failed", "skipped"}
                         /\ results[s] = IF timing[s] = "success" THEN "value" ELSE "nil"
    BY <2>2 DEF StepLeaves
  <2>4. ASSUME NEW s \in Steps, timing[s] = "skipped" PROVE s \in Downstream(Failed) \ Failed
    <3>1. \A C \in SUBSET Steps : Closed(C) /\ Failed \subseteq C => s \in C
      BY <2>4 DEF SkipsBehindFailures
    <3> QED BY <2>4, <3>1 DEF Downstream, Closed, Failed
  <2>5. ASSUME NEW s \in Steps, s \in Downstream(Failed) \ Failed PROVE timing[s] = "skipped"
    <3> DEFINE C == {t \in Steps : timing[t] \in {"failed", "skipped"}}
    <3>1. C \in SUBSET Steps /\ Failed \subseteq C
      BY DEF Failed
    <3>2. ASSUME NEW t \in Steps, deps[t] \cap C # {} PROVE t \in C
      <4>1. PICK d \in deps[t] : d \in Steps /\ results[d] # "value"
        BY <2>3, <3>2
      <4>2. timing[t] \notin {"success", "failed"}
        BY <4>1 DEF StepSendsWithAll
      <4> QED BY <2>3, <4>2
    <3>3. s \in C
      <4> HIDE DEF C
      <4> QED BY <2>5, <3>1, <3>2 DEF Downstream
    <3> QED BY <2>5, <3>3 DEF Failed
  <2> QED BY <2>3, <2>4, <2>5
<1> QED BY <1>1, ExecInvAlways, PTL

\* Execute: in every composition, the request fails exactly when a required step
\* itself failed, and the error it fails with is that of such a step.
THEOREM ExecutorHardErrorIffRequiredFailed == Spec => []HardErrorIffRequiredFailed
<1>1. ASSUME ExecInv PROVE HardErrorIffRequiredFailed
  <2> USE <1>1 DEF ExecInv
  <2>1. ASSUME execPc = "failed"
        PROVE  Required # {} /\ FirstRequired(waveErrors).step \in Required
    <3> DEFINE P(i) == /\ ~waveErrors[i].optional
                       /\ \A j \in DOMAIN waveErrors : ~waveErrors[j].optional => i <= j
               first == CHOOSE i \in DOMAIN waveErrors : P(i)
    <3>1. \E i \in DOMAIN waveErrors : P(i)
      BY <2>1 DEF ErrorsAccounted, HasFirst
    <3>2. first \in DOMAIN waveErrors /\ P(first)
      BY <3>1, Zenon
    <3>3. FirstRequired(waveErrors) = waveErrors[first]
      BY DEF FirstRequired
    <3> HIDE DEF first
    <3>4. waveErrors[first].step \in Required
      BY <3>2 DEF ErrorsAccounted
    <3> QED BY <3>3, <3>4
  <2>2. execPc = "complete" => Required = {}
    BY DEF ErrorsAccounted
  <2> QED BY <2>1, <2>2, Zenon DEF HardErrorIffRequiredFailed, Required
<1> QED BY <1>1, ExecInvAlways, PTL

\* serveComposition, BuildErrorsArray: in every composition, a complete reply hides no
\* failure, and _errors names every null field, each step once.
THEOREM ExecutorReplyAccountsForSteps == Spec => []ReplyAccountsForSteps
<1>1. ASSUME ExecInv PROVE ReplyAccountsForSteps
  <2> USE <1>1 DEF ExecInv
  <2> SUFFICES ASSUME reply.code = 200
               PROVE  /\ reply.complete => reply.nulls = {} /\ \A s \in Steps : timing[s] = "success"
                      /\ reply.complete <=> allErrors = <<>>
                      /\ bodyIsObject => reply.nulls \subseteq {e.step : e \in reply.errors}
                      /\ Distinct(allErrors)
    BY DEF ReplyAccountsForSteps, Distinct
  <2>1. /\ execPc = "answered" /\ (reply.complete <=> allErrors = <<>>) /\ reply.nulls = FailedSteps
        /\ bodyIsObject => reply.errors = BuildErrorsArray(allErrors)
        /\ \A s \in Steps : stepPc[s] = "done"
    BY DEF ReplySound
  <2>2. \A s \in Steps : timing[s] # "success" => s \in ErrorSteps(allErrors)
    BY <2>1 DEF ErrorsAccounted, StepLeaves
  <2>3. \A s \in FailedSteps : timing[s] # "success"
    BY <2>1 DEF FailedSteps, StepLeaves
  <2>4. allErrors = <<>> => ErrorSteps(allErrors) = {}
    BY DEF ErrorSteps
  <2>5. ErrorSteps(allErrors) \subseteq {e.step : e \in BuildErrorsArray(allErrors)}
    <3>1. \A i \in DOMAIN allErrors : Detail(allErrors[i]).step = allErrors[i].step
      BY DEF Detail
    <3>2. \A i \in DOMAIN allErrors : Detail(allErrors[i]) \in BuildErrorsArray(allErrors)
      BY DEF BuildErrorsArray
    <3> QED BY <3>1, <3>2 DEF ErrorSteps
  <2>6. FailedSteps \subseteq Steps /\ Distinct(allErrors)
    BY DEF FailedSteps, ErrorsAccounted
  <2>7. FailedSteps \subseteq {e.step : e \in BuildErrorsArray(allErrors)}
    BY <2>2, <2>3, <2>5, <2>6
  <2>8. reply.complete => FailedSteps = {} /\ \A s \in Steps : timing[s] = "success"
    BY <2>1, <2>2, <2>3, <2>4, <2>6
  <2> QED BY <2>1, <2>6, <2>7, <2>8
<1> QED BY <1>1, ExecInvAlways, PTL

=============================================================================
