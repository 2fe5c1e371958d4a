----------------------------- MODULE VersionLog -----------------------------
(***************************************************************************)
(* What Studio promises about published versions, without saying how: each *)
(* environment has one log of artifacts that only ever grows at its end,   *)
(* and an artifact is accepted by the validator in force when it is        *)
(* appended.  Versions implements this.  It is also the Studio that the    *)
(* gateways of Delivery pull from.                                         *)
(***************************************************************************)
EXTENDS Naturals, Sequences

CONSTANTS
  Envs,   \* environments
  Docs    \* artifact texts

VARIABLES
  log,    \* log[e][n] is version n of environment e
  valid   \* the artifacts the validator accepts

logVars == <<log, valid>>

LogTypeOK ==
  /\ log \in [Envs -> Seq(Docs)]
  /\ valid \in SUBSET Docs

LogInit ==
  /\ log = [e \in Envs |-> <<>>]
  /\ valid \in SUBSET Docs

\* A publish or a rollback appends an artifact the validator accepts.
AppendVersion(e, d) ==
  /\ d \in valid
  /\ log' = [log EXCEPT ![e] = Append(@, d)]
  /\ UNCHANGED valid

\* Studio restarts with another release of the validator.
ChangeValidator ==
  /\ valid' \in SUBSET Docs
  /\ UNCHANGED log

LogNext ==
  \/ \E e \in Envs, d \in Docs : AppendVersion(e, d)
  \/ ChangeValidator

LogSpec == LogInit /\ [][LogNext]_logVars

=============================================================================
