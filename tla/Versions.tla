------------------------------ MODULE Versions ------------------------------
(***************************************************************************)
(* Publishing in Studio (internal/studio/publish.go): publish, rollback    *)
(* and promote requests that run concurrently against the tables           *)
(* studio_environments, studio_resources and studio_artifact_versions.     *)
(*                                                                         *)
(* A request is a sequence of SQL statements, each atomic, with nothing    *)
(* held between them.  writeVersion reads the next number in one statement *)
(* and inserts the row in another; only the primary key on (environment,   *)
(* number) keeps two publishers apart.  An artifact text is a member of    *)
(* Docs: assembleArtifact renders the same draft to the same bytes and     *)
(* artifactResources is its inverse, so a draft is named by its text.      *)
(* Drafts models how a draft is edited.                                    *)
(***************************************************************************)
EXTENDS Naturals, FiniteSets, FiniteSetsExt, Sequences

CONSTANTS
  Envs,         \* environment names
  Docs,         \* artifact texts
  EmptyDoc,     \* the text of an empty draft
  Publishers,   \* clients of the API, one request each at a time
  MaxVersions   \* bound: versions per environment

ASSUME VersionsAssumption == EmptyDoc \in Docs /\ MaxVersions \in Nat

\* writeVersion gives up after this many inserts that met another's row.
Attempts == 3

VARIABLES
  envs,      \* rows of studio_environments
  draft,     \* the draft of each environment
  versions,  \* rows of studio_artifact_versions: a partial function per environment
  valid,     \* the artifacts the validator of the running release accepts
  req,       \* the request a publisher has in flight
  acked      \* history: the versions writeVersion returned to its callers

vars == <<envs, draft, versions, valid, req, acked>>

\* The numbers environment e has rows for, and the largest of them.
Numbers(e) == DOMAIN versions[e]

MaxNumber(e) == IF Numbers(e) = {} THEN 0 ELSE Max(Numbers(e))

\* A request inside writeVersion: about to read the next number, or to insert.
Idle == [pc |-> "idle"]
Request(e, d, pc, n, a, base) ==
  [pc |-> pc, env |-> e, doc |-> d, next |-> n, attempt |-> a, base |-> base]
Requests ==
  {Idle} \cup [pc : {"number", "insert"}, env : Envs, doc : Docs, next : Nat,
               attempt : 1..Attempts, base : Nat]

\* The bound: a request that may still insert counts as a version.
Room(e) ==
  MaxNumber(e) + Cardinality({p \in Publishers : req[p] # Idle /\ req[p].env = e}) < MaxVersions

Row(n, d) == [number |-> n, doc |-> d]

TypeOK ==
  /\ envs \in SUBSET Envs
  /\ draft \in [Envs -> Docs]
  /\ DOMAIN versions = Envs
  /\ \A e \in Envs : Numbers(e) \subseteq Nat \ {0} /\ versions[e] \in [Numbers(e) -> Docs]
  /\ valid \in SUBSET Docs
  /\ req \in [Publishers -> Requests]
  /\ acked \in [Envs -> Seq([number : Nat, doc : Docs])]

Init ==
  /\ envs = {}
  /\ draft = [e \in Envs |-> EmptyDoc]
  /\ versions = [e \in Envs |-> <<>>]
  /\ valid \in SUBSET Docs
  /\ req = [p \in Publishers |-> Idle]
  /\ acked = [e \in Envs |-> <<>>]

-----------------------------------------------------------------------------
(* Requests that touch no version                                          *)

createEnvironment(e) ==
  /\ e \notin envs
  /\ envs' = envs \cup {e}
  /\ UNCHANGED <<draft, versions, valid, req, acked>>

\* Saves and imports make the draft some other text.
EditDraft(e, d) ==
  /\ e \in envs
  /\ draft[e] # d
  /\ draft' = [draft EXCEPT ![e] = d]
  /\ UNCHANGED <<envs, versions, valid, req, acked>>

\* promote copies version n of environment f into the draft of e.
promote(e, f, n) ==
  /\ e \in envs
  /\ n \in Numbers(f)
  /\ draft' = [draft EXCEPT ![e] = versions[f][n]]
  /\ UNCHANGED <<envs, versions, valid, req, acked>>

-----------------------------------------------------------------------------
(* publish and rollback                                                    *)

\* Mutated form of validateArtifact: nothing is refused.
ValidateNothing(d) == d \in Docs

\* validateArtifact runs the gateway's own validator.
validateArtifact(d) == d \in valid

\* publish: preview reads the draft once and validates what it read; an
\* invalid draft ends the request with 422.
publish(p, e) ==
  /\ req[p] = Idle
  /\ Room(e)
  /\ e \in envs
  /\ validateArtifact(draft[e])
  /\ req' = [req EXCEPT ![p] = Request(e, draft[e], "number", 0, 1, MaxNumber(e))]
  /\ UNCHANGED <<envs, draft, versions, valid, acked>>

\* rollback: an old version, validated again, becomes the next one.
rollback(p, e, n) ==
  /\ req[p] = Idle
  /\ Room(e)
  /\ n \in Numbers(e)
  /\ validateArtifact(versions[e][n])
  /\ req' = [req EXCEPT ![p] = Request(e, versions[e][n], "number", 0, 1, MaxNumber(e))]
  /\ UNCHANGED <<envs, draft, versions, valid, acked>>

\* Mutated form of ReadNext: the number is the one after the number of rows seen
\* when the request began.
ReadNextStale(p) ==
  /\ req[p].pc = "number"
  /\ req' = [req EXCEPT ![p].next = req[p].base + req[p].attempt + 1, ![p].pc = "insert"]
  /\ UNCHANGED <<envs, draft, versions, valid, acked>>

\* writeVersion: SELECT COALESCE(MAX(number), 0) + 1
ReadNext(p) ==
  /\ req[p].pc = "number"
  /\ req' = [req EXCEPT ![p].next = MaxNumber(req[p].env) + 1, ![p].pc = "insert"]
  /\ UNCHANGED <<envs, draft, versions, valid, acked>>

\* The statement inserts a row.
PutRow(p) ==
  LET e == req[p].env
      n == req[p].next
  IN /\ versions' = [versions EXCEPT ![e] =
          [m \in Numbers(e) \cup {n} |-> IF m = n THEN req[p].doc ELSE versions[e][m]]]
     /\ acked' = [acked EXCEPT ![e] = Append(@, Row(n, req[p].doc))]
     /\ req' = [req EXCEPT ![p] = Idle]
     /\ UNCHANGED <<envs, draft, valid>>

\* Mutated form of Insert: ON CONFLICT DO UPDATE.
InsertOrReplace(p) ==
  /\ req[p].pc = "insert"
  /\ PutRow(p)

\* INSERT ... ON CONFLICT DO NOTHING finds the number free.
Insert(p) ==
  /\ req[p].pc = "insert"
  /\ req[p].next \notin Numbers(req[p].env)
  /\ PutRow(p)

\* Mutated form of Conflict: one conflict uses up every attempt.
ConflictGivesUp(p) ==
  /\ req[p].pc = "insert"
  /\ req[p].next \in Numbers(req[p].env)
  /\ req[p].attempt < Attempts
  /\ req' = [req EXCEPT ![p].pc = "number", ![p].attempt = Attempts]
  /\ UNCHANGED <<envs, draft, versions, valid, acked>>

\* Mutated form of Conflict: the loop has no bound.
ConflictForever(p) ==
  /\ req[p].pc = "insert"
  /\ req[p].next \in Numbers(req[p].env)
  /\ req[p].attempt < Attempts
  /\ UNCHANGED vars

\* The number is taken: the loop reads the next one and tries again.
Conflict(p) ==
  /\ req[p].pc = "insert"
  /\ req[p].next \in Numbers(req[p].env)
  /\ req[p].attempt < Attempts
  /\ req' = [req EXCEPT ![p].pc = "number", ![p].attempt = @ + 1]
  /\ UNCHANGED <<envs, draft, versions, valid, acked>>

\* The third conflict answers 409.
Refuse(p) ==
  /\ req[p].pc = "insert"
  /\ req[p].next \in Numbers(req[p].env)
  /\ req[p].attempt = Attempts
  /\ req' = [req EXCEPT ![p] = Idle]
  /\ UNCHANGED <<envs, draft, versions, valid, acked>>

\* A statement fails, or the client leaves: the request ends where it is.
Abort(p) ==
  /\ req[p] # Idle
  /\ req' = [req EXCEPT ![p] = Idle]
  /\ UNCHANGED <<envs, draft, versions, valid, acked>>

\* Studio stops and starts, perhaps as another release with another validator;
\* the requests in flight are gone, the tables stay.
Restart ==
  /\ valid' \in SUBSET Docs
  /\ req' = [p \in Publishers |-> Idle]
  /\ UNCHANGED <<envs, draft, versions, acked>>

PublisherNext(p) ==
  \/ \E e \in Envs : publish(p, e)
  \/ \E e \in Envs : \E n \in Numbers(e) : rollback(p, e, n)
  \/ ReadNext(p)
  \/ Insert(p)
  \/ Conflict(p)
  \/ Refuse(p)
  \/ Abort(p)

Next ==
  \/ \E e \in Envs : createEnvironment(e)
  \/ \E e \in Envs, d \in Docs : EditDraft(e, d)
  \/ \E e, f \in Envs : \E n \in Numbers(f) : promote(e, f, n)
  \/ \E p \in Publishers : PublisherNext(p)
  \/ Restart

\* The HTTP server runs a request to its end once it has begun.
Fairness ==
  \A p \in Publishers : WF_vars(ReadNext(p) \/ Insert(p) \/ Conflict(p) \/ Refuse(p))

Spec == Init /\ [][Next]_vars /\ Fairness

-----------------------------------------------------------------------------
(* Properties                                                              *)

\* Version numbers have no gap and no repetition, so MAX(number) is the number
\* of versions and the artifact of every number up to it can be served.
NumbersDense ==
  \A e \in Envs : MaxNumber(e) \in Nat /\ Numbers(e) = 1..MaxNumber(e)

\* A publisher that was told "version n" owns version n: no other publisher got
\* the same number, and the row holds the artifact that was published.
AckedVersionsStand ==
  \A e \in Envs :
    /\ \A i \in DOMAIN acked[e] :
         /\ acked[e][i].number \in Numbers(e)
         /\ versions[e][acked[e][i].number] = acked[e][i].doc
    /\ \A i, j \in DOMAIN acked[e] : acked[e][i].number = acked[e][j].number => i = j

\* The migration says of the table: rows are inserted, never updated or
\* deleted.  No step removes or rewrites a version, and the next version is
\* one the validator in force accepts, although it was checked before other
\* statements ran.
HistoryAppendOnly ==
  [][\A e \in Envs :
       /\ Numbers(e) \subseteq DOMAIN versions'[e]
       /\ \A n \in Numbers(e) : versions'[e][n] = versions[e][n]
       /\ \A n \in DOMAIN versions'[e] \ Numbers(e) :
            n = MaxNumber(e) + 1 /\ versions'[e][n] \in valid]_versions

\* A 409 is never spurious: when the k-th attempt of a request begins, at least
\* k - 1 versions have been published since the request began.
ConflictMeansProgress ==
  \A p \in Publishers : req[p] # Idle =>
    MaxNumber(req[p].env) >= req[p].base + req[p].attempt - 1

\* The strengthening the safety properties are proved from: a request carries
\* an artifact the validator in force accepts, and the number it is about to
\* insert is at most one past the newest version.
RequestsSound ==
  \A p \in Publishers : req[p] # Idle =>
    /\ req[p].doc \in valid
    /\ req[p].pc = "insert" =>
         /\ req[p].next >= 1
         /\ req[p].next <= MaxNumber(req[p].env) + 1
         /\ req[p].next > req[p].base + req[p].attempt - 1

Inv ==
  /\ TypeOK
  /\ NumbersDense
  /\ AckedVersionsStand
  /\ RequestsSound
  /\ ConflictMeansProgress

\* A publish or rollback that has passed validation is answered.
PublishEnds == \A p \in Publishers : req[p] # Idle ~> req[p] = Idle

\* The rows of each environment by number.
PublishedLog == [e \in Envs |-> [n \in 1..MaxNumber(e) |-> versions[e][n]]]

Log == INSTANCE VersionLog WITH log <- PublishedLog, valid <- valid

\* The statements of concurrent publish and rollback requests together
\* implement the append-only log: each version appears at once, at the end.
ImplementsLog == Log!LogSpec

=============================================================================
