--------------------------- MODULE ExecutionPlan ---------------------------
(***************************************************************************)
(* The compilation of a composition into an execution plan                 *)
(* (internal/composition/dag.go).  BuildDAG checks that every dependency   *)
(* names a step, then buildExecutionPlan peels the dependency graph into   *)
(* waves with Kahn's algorithm: each turn of its loop emits the steps that *)
(* wait for nothing as one wave.  One action here is one turn of the loop. *)
(*                                                                         *)
(* The graph is a variable that Init leaves open, so one run of the model  *)
(* checker covers every graph over Steps, cyclic ones and references to    *)
(* steps that do not exist included.                                       *)
(***************************************************************************)
EXTENDS Naturals, FiniteSets, Sequences

CONSTANTS
  Steps,     \* the names of the composition's steps
  Missing    \* a name a dependency may give that no step has

ASSUME StepsAssumption == IsFiniteSet(Steps) /\ Missing \notin Steps

VARIABLES
  deps,      \* CompiledStep.Deps: explicit and inferred dependencies, no duplicates
  inDegree,  \* dependencies of a step that no emitted wave holds yet
  queue,     \* the next wave
  waves,     \* ExecutionPlan.Waves
  processed, \* the number of steps emitted so far
  planPc     \* "validate", "kahn", then "planned" or "rejected"

planVars == <<deps, inDegree, queue, waves, processed, planPc>>

\* The steps the waves emitted so far hold.
Emitted == UNION {waves[i] : i \in DOMAIN waves}

Dependencies == SUBSET (Steps \cup {Missing})

PlanTypeOK ==
  /\ deps \in [Steps -> Dependencies]
  /\ inDegree \in [Steps -> Nat]
  /\ queue \in SUBSET Steps
  /\ waves \in Seq(SUBSET Steps)
  /\ processed \in Nat
  /\ planPc \in {"validate", "kahn", "planned", "rejected"}

PlanInit ==
  /\ deps \in [Steps -> Dependencies]
  /\ inDegree = [s \in Steps |-> 0]
  /\ queue = {}
  /\ waves = <<>>
  /\ processed = 0
  /\ planPc = "validate"

\* validateDependencies fails: some dependency is not a step.
RejectUnknown ==
  /\ planPc = "validate"
  /\ \E s \in Steps : ~(deps[s] \subseteq Steps)
  /\ planPc' = "rejected"
  /\ UNCHANGED <<deps, inDegree, queue, waves, processed>>

\* validateDependencies passes; buildExecutionPlan counts the in-degrees and
\* queues the steps that have none.
CountDegrees ==
  /\ planPc = "validate"
  /\ \A s \in Steps : deps[s] \subseteq Steps
  /\ inDegree' = [s \in Steps |-> Cardinality(deps[s])]
  /\ queue' = {s \in Steps : Cardinality(deps[s]) = 0}
  /\ planPc' = "kahn"
  /\ UNCHANGED <<deps, waves, processed>>

\* Mutated form of EmitWave: a step queues on its first satisfied dependency.
EmitWaveOnAnyDep ==
  /\ planPc = "kahn"
  /\ queue # {}
  /\ waves' = Append(waves, queue)
  /\ processed' = processed + Cardinality(queue)
  /\ inDegree' = [s \in Steps |-> inDegree[s] - Cardinality(deps[s] \cap queue)]
  /\ queue' = {s \in Steps \ (Emitted \cup queue) : deps[s] \cap queue # {}}
  /\ UNCHANGED <<deps, planPc>>

\* Mutated form of EmitWave: a wave holds one step of the queue.
EmitWaveOneByOne ==
  /\ planPc = "kahn"
  /\ \E q \in queue :
       /\ waves' = Append(waves, {q})
       /\ processed' = processed + 1
       /\ inDegree' = [s \in Steps |-> inDegree[s] - Cardinality(deps[s] \cap {q})]
       /\ queue' = (queue \ {q}) \cup {s \in Steps : q \in deps[s] /\ inDegree'[s] = 0}
  /\ UNCHANGED <<deps, planPc>>

\* One turn of the loop: the queue becomes a wave, every edge that leaves it
\* lowers the in-degree of its target, and a target that reaches zero queues.
EmitWave ==
  /\ planPc = "kahn"
  /\ queue # {}
  /\ waves' = Append(waves, queue)
  /\ processed' = processed + Cardinality(queue)
  /\ inDegree' = [s \in Steps |-> inDegree[s] - Cardinality(deps[s] \cap queue)]
  /\ queue' = {s \in Steps : deps[s] \cap queue # {} /\ inDegree'[s] = 0}
  /\ UNCHANGED <<deps, planPc>>

\* Mutated form of FinishPlan: the count of emitted steps is not compared.
FinishPlanUncounted ==
  /\ planPc = "kahn"
  /\ queue = {}
  /\ planPc' = "planned"
  /\ UNCHANGED <<deps, inDegree, queue, waves, processed>>

\* The queue is empty: a step left over is on, or behind, a cycle.
FinishPlan ==
  /\ planPc = "kahn"
  /\ queue = {}
  /\ planPc' = IF processed = Cardinality(Steps) THEN "planned" ELSE "rejected"
  /\ UNCHANGED <<deps, inDegree, queue, waves, processed>>

PlanNext ==
  \/ RejectUnknown
  \/ CountDegrees
  \/ EmitWave
  \/ FinishPlan

PlanSpec == PlanInit /\ [][PlanNext]_planVars /\ WF_planVars(PlanNext)

-----------------------------------------------------------------------------
(* What the plan promises, stated against the graph alone.                 *)

\* A set of steps each of which waits for another one of the set.
Cyclic(C) == \A s \in C : deps[s] \cap C # {}

\* The graph has no such set: every dependency is a step, none waits for itself.
Acyclic ==
  /\ \A s \in Steps : deps[s] \subseteq Steps
  /\ \A C \in SUBSET Steps : Cyclic(C) => C = {}

\* BuildDAG accepts exactly the graphs a composition can be run along: it
\* returns an error for an unknown or circular reference and for nothing else.
AcceptsExactlyDags ==
  /\ planPc = "planned" => Acyclic
  /\ planPc = "rejected" => ~Acyclic

\* A plan holds every step, and every dependency of a step sits in a strictly
\* earlier wave, which is what lets Execute run a wave's steps concurrently.
WavesRespectDeps ==
  planPc = "planned" =>
    /\ Emitted = Steps
    /\ \A i \in DOMAIN waves : \A s \in waves[i] : \A d \in deps[s] :
         \E j \in DOMAIN waves : j < i /\ d \in waves[j]

\* A step is in one wave only, so Execute never runs it twice.
WavesDisjoint ==
  \A i, j \in DOMAIN waves : i # j => waves[i] \cap waves[j] = {}

\* No wave could have been merged into the one before it: a step of wave i + 1
\* waits for one of wave i.
WavesMinimal ==
  \A i \in DOMAIN waves : i > 1 =>
    /\ waves[i] # {}
    /\ \A s \in waves[i] : deps[s] \cap waves[i - 1] # {}

\* The strengthening the four invariants above are proved from.  Counted says
\* that the in-degrees have been initialised; from then on they count the
\* dependencies not yet emitted, the queue holds exactly the steps that wait
\* for nothing, and no step of a cyclic set has been emitted.
Counted ==
  \/ planPc \in {"kahn", "planned"}
  \/ planPc = "rejected" /\ \A s \in Steps : deps[s] \subseteq Steps

CountsRemaining ==
  Counted =>
    /\ \A s \in Steps : deps[s] \subseteq Steps
    /\ \A s \in Steps : inDegree[s] = Cardinality(deps[s] \ Emitted)
    /\ queue = {s \in Steps \ Emitted : deps[s] \subseteq Emitted}
    /\ processed = Cardinality(Emitted)
    /\ planPc # "kahn" => queue = {}
    /\ planPc # "kahn" => (planPc = "planned" <=> processed = Cardinality(Steps))

EmittedBehindDeps ==
  /\ planPc = "validate" => waves = <<>> /\ processed = 0
  /\ \A i \in DOMAIN waves : \A s \in waves[i] : \A d \in deps[s] :
       \E j \in DOMAIN waves : j < i /\ d \in waves[j]
  /\ \A C \in SUBSET Steps : Cyclic(C) => C \cap Emitted = {}

QueueBehindLastWave ==
  Counted /\ waves # <<>> =>
    \A s \in queue : deps[s] \cap waves[Len(waves)] # {}

PlanInv ==
  /\ PlanTypeOK
  /\ CountsRemaining
  /\ EmittedBehindDeps
  /\ QueueBehindLastWave
  /\ WavesDisjoint
  /\ WavesMinimal

=============================================================================
