------------------------ MODULE StudioSettingsProofs ------------------------
(***************************************************************************)
(* Proofs about StudioSettings, for any number of environments, users,     *)
(* secrets and requests under way.                                         *)
(*                                                                         *)
(* A closed secret could come back from an answer that carries it again.   *)
(* SecretsApart excludes that: every secret is in one place only, in one   *)
(* answer under way, in the page's component, or among the dismissed, and  *)
(* the server numbers a new secret past all of them.                       *)
(***************************************************************************)
EXTENDS StudioSettings, TLAPS

Secret == [of : Envs \cup People, revoked : BOOLEAN]

\* The answers that carry a secret.
Carries(r) == r.op \in {"issue", "invite", "reset"}

SettingsType ==
  /\ secrets \in Seq(Secret)
  /\ token \in Nat
  /\ \A r \in net : DOMAIN r = {"op", "id", "wrote", "key", "rev", "ok", "by"}
  /\ page \in Pages

SecretsApart ==
  /\ token <= Len(secrets) /\ (token # 0 => token \notin dismissed)
  /\ \A s \in dismissed : s \in Nat /\ s <= Len(secrets)
  /\ \A r \in net : Carries(r) =>
       /\ r.id \in Nat \ {0} /\ r.id <= Len(secrets)
       /\ r.id # token /\ r.id \notin dismissed
  /\ \A r, s \in net : Carries(r) /\ Carries(s) /\ r.id = s.id => r = s

SettingsInv == SettingsType /\ SecretsApart

-----------------------------------------------------------------------------
(* Steps by what they do to secrets and requests                           *)

\* The server makes a secret and answers with it.
LEMMA NewSecretKeeps ==
  ASSUME SettingsInv, NEW owner \in Envs \cup People, NewSecret(owner),
         NEW op \in {"issue", "invite", "reset"}, Write(op, Len(secrets) + 1),
         UNCHANGED <<page, token, dismissed>>
  PROVE  SettingsInv'
<1> DEFINE new == [op |-> op, id |-> Len(secrets) + 1, wrote |-> Key(page), key |-> Key(page),
                   rev |-> rev[Key(page)] + 1, ok |-> TRUE, by |-> "held"]
<1>1. net' = net \cup {new}
  BY DEF Write
<1>2. /\ DOMAIN new = {"op", "id", "wrote", "key", "rev", "ok", "by"}
      /\ new.op = op /\ new.id = Len(secrets) + 1
  OBVIOUS
<1> HIDE DEF new
<1>3. secrets' \in Seq(Secret) /\ Len(secrets') = Len(secrets) + 1 /\ Len(secrets) \in Nat
  <2>1. [of |-> owner, revoked |-> FALSE] \in Secret
    BY Zenon DEF Secret
  <2> QED BY <2>1 DEF SettingsInv, SettingsType, NewSecret
<1>4. SettingsType'
  BY <1>1, <1>2, <1>3 DEF SettingsInv, SettingsType
<1>5. SecretsApart'
  BY <1>1, <1>2, <1>3 DEF SettingsInv, SettingsType, SecretsApart, Carries
<1> QED BY <1>4, <1>5 DEF SettingsInv

\* A request that carries no secret is made, or nothing is.
LEMMA OtherRequestKeeps ==
  ASSUME SettingsInv, secrets' \in Seq(Secret), Len(secrets') = Len(secrets),
         UNCHANGED <<page, token, dismissed>>,
         \A r \in net' : \/ r \in net
                         \/ /\ DOMAIN r = {"op", "id", "wrote", "key", "rev", "ok", "by"}
                            /\ ~Carries(r)
  PROVE  SettingsInv'
<1>1. SettingsType'
  BY DEF SettingsInv, SettingsType
<1>2. SecretsApart'
  BY DEF SettingsInv, SettingsType, SecretsApart
<1> QED BY <1>1, <1>2 DEF SettingsInv

\* The answers under way change in what they will do, never in what they carry.
LEMMA RelabelledKeeps ==
  ASSUME SettingsInv, secrets' = secrets, page' \in Pages,
         token' \in {token, 0}, dismissed' \subseteq dismissed \cup ({token} \ {0}),
         token' # 0 => dismissed' = dismissed,
         NEW f, net' = {f[r] : r \in net},
         \A r \in net : /\ DOMAIN f[r] = {"op", "id", "wrote", "key", "rev", "ok", "by"}
                        /\ f[r].op = r.op /\ f[r].id = r.id
  PROVE  SettingsInv'
<1>0. \A q \in net' : \E r \in net : q = f[r]
  OBVIOUS
<1>1. SettingsType'
  <2>1. \A q \in net' : DOMAIN q = {"op", "id", "wrote", "key", "rev", "ok", "by"}
    BY <1>0
  <2>2. token' \in Nat
    BY DEF SettingsInv, SettingsType
  <2> QED BY <2>1, <2>2 DEF SettingsInv, SettingsType
<1>2. Len(secrets) \in Nat
  BY DEF SettingsInv, SettingsType
<1>3. SecretsApart'
  BY <1>2 DEF SettingsInv, SettingsType, SecretsApart, Carries
<1> QED BY <1>1, <1>3 DEF SettingsInv

\* An answer arrives, or is lost.
LEMMA AnswerKeeps ==
  ASSUME SettingsInv, NEW r \in net, net' = net \ {r}, token' \in {token, Held(r)},
         UNCHANGED <<secrets, page, dismissed>>
  PROVE  SettingsInv'
<1>1. token' = token \/ (Carries(r) /\ token' = r.id)
  BY DEF Held, Carries
<1>2. SettingsType'
  BY <1>1 DEF SettingsInv, SettingsType, SecretsApart
<1>3. SecretsApart'
  <2>1. CASE token' = token
    BY <2>1 DEF SettingsInv, SettingsType, SecretsApart
  <2>2. CASE Carries(r) /\ token' = r.id
    BY <2>2 DEF SettingsInv, SettingsType, SecretsApart
  <2> QED BY <1>1, <2>1, <2>2
<1> QED BY <1>2, <1>3 DEF SettingsInv

-----------------------------------------------------------------------------
(* The invariant                                                           *)

LEMMA SettingsInit == Init => SettingsInv
<1> SUFFICES ASSUME Init PROVE SettingsInv
  OBVIOUS
<1>1. secrets \in Seq(Secret) /\ Len(secrets) = 0
  BY DEF Init
<1> QED BY <1>1 DEF Init, SettingsInv, SettingsType, SecretsApart

LEMMA ConfirmRevokeKeeps ==
  ASSUME SettingsInv, ConfirmRevoke
  PROVE  SettingsInv'
<1>1. secrets \in Seq(Secret) /\ Len(secrets) \in Nat
  BY DEF SettingsInv, SettingsType
<1>2. secrets' \in Seq(Secret) /\ Len(secrets') = Len(secrets)
  <2>1. CASE Revocable(dialog.id)
    <3>1. dialog.id \in 1..Len(secrets) /\ secrets' = [secrets EXCEPT ![dialog.id].revoked = TRUE]
      BY <2>1 DEF ConfirmRevoke, Revocable
    <3>2. [secrets[dialog.id] EXCEPT !.revoked = TRUE] \in Secret
      <4>1. secrets[dialog.id] \in Secret
        BY <1>1, <3>1
      <4> QED BY <4>1, Zenon DEF Secret
    <3> QED BY <1>1, <3>1, <3>2
  <2>2. CASE ~Revocable(dialog.id)
    BY <1>1, <2>2 DEF ConfirmRevoke, Refuse
  <2> QED BY <2>1, <2>2
<1>3. \A r \in net' : \/ r \in net
                      \/ /\ DOMAIN r = {"op", "id", "wrote", "key", "rev", "ok", "by"}
                         /\ ~Carries(r)
  BY DEF ConfirmRevoke, Write, Refuse, Carries
<1>4. UNCHANGED <<page, token, dismissed>>
  BY DEF ConfirmRevoke
<1> QED BY <1>2, <1>3, <1>4, OtherRequestKeeps

LEMMA CloseKeeps ==
  ASSUME SettingsInv, Close
  PROVE  SettingsInv'
<1> DEFINE f == [r \in net |->
                   IF r.op = "issue" /\ r.by = "held" /\ page.kind = "tokens" /\ dialog.kind = "new"
                   THEN [r EXCEPT !.by = "reset"] ELSE r]
<1>1. net' = {f[r] : r \in net}
  BY DEF Close
<1>2. \A r \in net : /\ DOMAIN f[r] = {"op", "id", "wrote", "key", "rev", "ok", "by"}
                     /\ f[r].op = r.op /\ f[r].id = r.id
  BY DEF SettingsInv, SettingsType
<1> HIDE DEF f
<1>3. secrets' = secrets /\ page' \in Pages
  BY DEF Close, server, SettingsInv, SettingsType
<1>4. /\ token' \in {token, 0} /\ dismissed' \subseteq dismissed \cup ({token} \ {0})
      /\ token' # 0 => dismissed' = dismissed
  BY DEF Close, Displayed
<1> QED BY <1>1, <1>2, <1>3, <1>4, RelabelledKeeps

LEMMA SwitchEnvKeeps ==
  ASSUME SettingsInv, NEW e \in Envs, SwitchEnv(e)
  PROVE  SettingsInv'
<1> DEFINE f == [r \in net |-> IF r.op \in {"issue", "revoke"} /\ r.by # "unmounted"
                               THEN [r EXCEPT !.key = e] ELSE r]
<1>1. net' = {f[r] : r \in net}
  BY DEF SwitchEnv
<1>2. \A r \in net : /\ DOMAIN f[r] = {"op", "id", "wrote", "key", "rev", "ok", "by"}
                     /\ f[r].op = r.op /\ f[r].id = r.id
  BY DEF SettingsInv, SettingsType
<1> HIDE DEF f
<1>3. page' \in Pages
  BY SettingsAssumption DEF SwitchEnv, SettingsInv, SettingsType, Pages
<1>4. secrets' = secrets /\ token' = token /\ dismissed' = dismissed
  BY DEF SwitchEnv, server
<1> QED BY <1>1, <1>2, <1>3, <1>4, RelabelledKeeps

LEMMA LeaveKeeps ==
  ASSUME SettingsInv, NEW p \in Pages, Leave(p)
  PROVE  SettingsInv'
<1> DEFINE f == [r \in net |-> [r EXCEPT !.by = "unmounted"]]
<1>1. net' = {f[r] : r \in net}
  BY DEF Leave
<1>2. \A r \in net : /\ DOMAIN f[r] = {"op", "id", "wrote", "key", "rev", "ok", "by"}
                     /\ f[r].op = r.op /\ f[r].id = r.id
  BY DEF SettingsInv, SettingsType
<1> HIDE DEF f
<1>3. page' \in Pages /\ secrets' = secrets /\ token' = 0 /\ dismissed' = dismissed
  BY DEF Leave, server
<1> QED BY <1>1, <1>2, <1>3, RelabelledKeeps

LEMMA SettingsStep == SettingsInv /\ [Next]_vars => SettingsInv'
<1> SUFFICES ASSUME SettingsInv, [Next]_vars PROVE SettingsInv'
  OBVIOUS
<1>0. secrets \in Seq(Secret) /\ page \in Pages
  BY DEF SettingsInv, SettingsType
<1>1. ASSUME UNCHANGED <<secrets, page, net, token, dismissed>> PROVE SettingsInv'
  BY <1>0, <1>1, OtherRequestKeeps
<1>2. CASE \/ FetchList \/ ServeList \/ (\E ok \in BOOLEAN : ListArrives(ok))
           \/ OpenNew \/ (\E id \in Targets : OpenConfirm(id)) \/ UNCHANGED vars
  BY <1>1, <1>2 DEF FetchList, ServeList, ListArrives, OpenNew, OpenConfirm, server, vars
<1>3. CASE Issue
  <2>1. page.env \in Envs \cup People
    BY <1>0, <1>3 DEF Issue, Pages
  <2> QED BY <1>3, <2>1, NewSecretKeeps DEF Issue
<1>4. ASSUME NEW p \in People, Invite(p) \/ Reset(p) PROVE SettingsInv'
  BY <1>4, NewSecretKeeps DEF Invite, Reset
<1>5. CASE CreateEnvironment \/ ConfirmDisable
           \/ \E op \in {"enable", "setRole"}, p \in People : ChangeUser(op, p)
  <2>1. \A r \in net' : \/ r \in net
                        \/ /\ DOMAIN r = {"op", "id", "wrote", "key", "rev", "ok", "by"}
                           /\ ~Carries(r)
    BY <1>5 DEF CreateEnvironment, ConfirmDisable, ChangeUser, Write, Carries
  <2>2. UNCHANGED <<secrets, page, token, dismissed>>
    BY <1>5 DEF CreateEnvironment, ConfirmDisable, ChangeUser
  <2> QED BY <1>0, <2>1, <2>2, OtherRequestKeeps
<1>6. CASE ConfirmRevoke
  BY <1>6, ConfirmRevokeKeeps
<1>7. ASSUME NEW r \in net, Succeeds(r) \/ Fails(r) PROVE SettingsInv'
  BY <1>7, AnswerKeeps DEF Succeeds, Fails, server
<1>8. CASE Close
  BY <1>8, CloseKeeps
<1>9. ASSUME NEW e \in Envs, SwitchEnv(e) PROVE SettingsInv'
  BY <1>9, SwitchEnvKeeps
<1>10. ASSUME NEW p \in Pages, Leave(p) PROVE SettingsInv'
  BY <1>10, LeaveKeeps
<1> QED BY <1>2, <1>3, <1>4, <1>5, <1>6, <1>7, <1>8, <1>9, <1>10 DEF Next

LEMMA SettingsAlways == Spec => []SettingsInv
BY SettingsInit, SettingsStep, PTL DEF Spec

-----------------------------------------------------------------------------
(* Theorems                                                                *)

\* NewTokenDialog, InviteDialog and the reset of UsersPage: for any number of secrets
\* and of answers under way, a secret whose dialog was closed is never shown again.
THEOREM SettingsSecretShownOnce == Spec => []SecretShownOnce
<1>1. SettingsInv => SecretShownOnce
  BY DEF SettingsInv, SecretsApart, SecretShownOnce, Displayed
<1> QED BY <1>1, SettingsAlways, PTL

\* OwnerTokens and revokeGatewayToken: for any number of tokens and environments, only
\* the token that the dialog names is revoked, and only on its environment's page.
THEOREM SettingsRevokesWhatIsShown == Spec => RevokesWhatIsShown
<1>1. ASSUME SettingsInv, [Next]_vars
      PROVE  \A id \in 1..Len(secrets) :
               secrets'[id].revoked /\ ~secrets[id].revoked
                 => dialog.id = id /\ secrets[id].of = page.env
  <2>0. secrets \in Seq(Secret) /\ Len(secrets) \in Nat
    BY <1>1 DEF SettingsInv, SettingsType
  <2>1. CASE ConfirmRevoke
    <3>1. CASE Revocable(dialog.id)
      BY <2>0, <2>1, <3>1 DEF ConfirmRevoke, Revocable
    <3>2. CASE ~Revocable(dialog.id)
      BY <2>1, <3>2 DEF ConfirmRevoke, Refuse
    <3> QED BY <3>1, <3>2
  <2>2. ASSUME NEW owner, NewSecret(owner) PROVE \A id \in 1..Len(secrets) : secrets'[id] = secrets[id]
    BY <2>0, <2>2 DEF NewSecret
  <2>3. ASSUME ~ConfirmRevoke
        PROVE  secrets' = secrets \/ \E owner : NewSecret(owner)
    BY <1>1, <2>3
       DEF Next, FetchList, ServeList, ListArrives, Issue, CreateEnvironment, ConfirmDisable, Invite,
           Reset, ChangeUser, Succeeds, Fails, OpenNew, OpenConfirm, Close, SwitchEnv, Leave, server, vars
  <2> QED BY <2>1, <2>2, <2>3
<1> QED BY <1>1, SettingsAlways, PTL DEF Spec, RevokesWhatIsShown

=============================================================================
