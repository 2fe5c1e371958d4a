--------------------------- MODULE StudioSettings ---------------------------
(***************************************************************************)
(* The administration pages of Studio (studio/src/features/settings and    *)
(* features/environments): gateway tokens of an environment, users, and    *)
(* environments, with the dialogs that create, revoke and disable, and the *)
(* secrets that Studio shows once: a token, a temporary password.          *)
(*                                                                         *)
(* The tokens page is not keyed by its environment: a jump in the command  *)
(* palette keeps its dialogs, and the answers that are still under way run *)
(* with the environment of the latest render.  Another page unmounts it,   *)
(* and later answers find no state to set.                                 *)
(*                                                                         *)
(* A list is the number of writes it reflects.  The server acts when the   *)
(* user does; the answer arrives later, in any order, or is lost.          *)
(***************************************************************************)
EXTENDS Integers, Sequences, FiniteSets, FiniteSetsExt

CONSTANTS
  Envs, NoEnv,
  People,        \* users other than the one who is signed in
  MaxSecrets,    \* bound: tokens and temporary passwords
  MaxWrites,     \* bound: writes to the lists
  MaxInFlight    \* bound: answers under way

ASSUME SettingsAssumption ==
  /\ NoEnv \notin Envs
  /\ Envs \cap People = {}
  /\ MaxSecrets \in Nat /\ MaxWrites \in Nat /\ MaxInFlight \in Nat

VARIABLES
  secrets,    \* server: tokens and passwords issued, and tokens revoked
  disabled,   \* server: disabled users
  rev,        \* server: writes to each list so far
  page,       \* the page, and the environment of the tokens page
  list,       \* the list query of the page
  net,        \* answers under way
  dialog,     \* creating, revoking, inviting, disabling
  token,      \* the secret that the page's component holds, 0 without
  owed,       \* history: a write of this tab that the list must reflect
  dismissed   \* history: secrets whose dialog the user has closed

vars == <<secrets, disabled, rev, page, list, net, dialog, token, owed, dismissed>>
server == <<secrets, disabled, rev>>

Nothing == -1
Keys == Envs \cup {"users", "environments"}
Targets == (0..MaxSecrets) \cup People
Closed == [kind |-> "none", id |-> 0]
Key(p) == IF p.kind = "tokens" THEN p.env ELSE p.kind
Pages == [kind : {"tokens"}, env : Envs] \cup [kind : {"users", "environments"}, env : {NoEnv}]
Ops == {"issue", "revoke", "invite", "reset", "disable", "enable", "setRole", "createEnv"}

\* A request of the page: what it did on the server, the list it wrote, the list that
\* its onSuccess invalidates, and whether the mutation that sent it is still mounted.
Request == [op : Ops, id : Targets, wrote : Keys, key : Keys, rev : 0..MaxWrites,
            ok : BOOLEAN, by : {"held", "reset", "unmounted"}]
\* The list on the page; n is the number of writes it shows.
List == [n : Nothing..MaxWrites, req : {"idle", "sent", "served"}, got : 0..MaxWrites]

TypeOK ==
  /\ secrets \in Seq([of : Envs \cup People, revoked : BOOLEAN])
  /\ Len(secrets) <= MaxSecrets
  /\ disabled \subseteq People
  /\ rev \in [Keys -> 0..MaxWrites]
  /\ page \in Pages
  /\ list \in List
  /\ \A r \in net : r \in Request
  /\ dialog \in [kind : {"none", "new", "confirm"}, id : Targets]
  /\ token \in 0..MaxSecrets
  /\ owed \in 0..MaxWrites
  /\ dismissed \subseteq 1..MaxSecrets

Init ==
  /\ secrets = <<>>
  /\ disabled = {}
  /\ rev = [k \in Keys |-> 0]
  /\ page \in Pages
  /\ list = [n |-> Nothing, req |-> "idle", got |-> 0]
  /\ net = {}
  /\ dialog = Closed
  /\ token = 0
  /\ owed = 0
  /\ dismissed = {}

-----------------------------------------------------------------------------
(* The list of the page                                                    *)

FetchList ==
  /\ list.req = "idle"
  /\ list' = [list EXCEPT !.req = "sent"]
  /\ UNCHANGED <<server, page, net, dialog, token, owed, dismissed>>

ServeList ==
  /\ list.req = "sent"
  /\ list' = [list EXCEPT !.req = "served", !.got = rev[Key(page)]]
  /\ UNCHANGED <<server, page, net, dialog, token, owed, dismissed>>

ListArrives(ok) ==
  /\ list.req = "served"
  /\ list' = [n |-> IF ok THEN list.got ELSE list.n, req |-> "idle", got |-> 0]
  /\ owed' = IF ~ok \/ list.got >= owed THEN 0 ELSE owed
  /\ UNCHANGED <<server, page, net, dialog, token, dismissed>>

\* invalidateQueries: the request under way is aborted for a new one, but joined
\* when the list has no data yet.
Joined == list.n = Nothing /\ list.req # "idle"
Invalidated(k) ==
  IF k # Key(page) \/ Joined THEN list ELSE [list EXCEPT !.req = "sent", !.got = 0]

-----------------------------------------------------------------------------
(* Requests                                                                *)

Pending(op) == \E r \in net : r.op = op /\ r.by = "held"

HasRoom ==
  /\ MapThenSumSet(LAMBDA k : rev[k], Keys) < MaxWrites
  /\ Cardinality(net) < MaxInFlight

\* The server performs op on id and writes the list of the page.
Write(op, id) ==
  /\ HasRoom
  /\ rev' = [rev EXCEPT ![Key(page)] = @ + 1]
  /\ net' = net \cup {[op |-> op, id |-> id, wrote |-> Key(page), key |-> Key(page),
                       rev |-> rev[Key(page)] + 1, ok |-> TRUE, by |-> "held"]}

\* The server refuses op.
Refuse(op, id) ==
  /\ Cardinality(net) < MaxInFlight
  /\ net' = net \cup {[op |-> op, id |-> id, wrote |-> Key(page), key |-> Key(page),
                       rev |-> 0, ok |-> FALSE, by |-> "held"]}
  /\ UNCHANGED <<secrets, disabled, rev>>

\* The server makes a new secret for owner and answers with it.
NewSecret(owner) ==
  /\ Len(secrets) < MaxSecrets
  /\ secrets' = Append(secrets, [of |-> owner, revoked |-> FALSE])

\* NewTokenDialog: submit, with a name.
Issue ==
  /\ page.kind = "tokens" /\ dialog.kind = "new" /\ token = 0
  /\ ~Pending("issue")
  /\ NewSecret(page.env)
  /\ Write("issue", Len(secrets) + 1)
  /\ UNCHANGED <<disabled, page, list, dialog, token, owed, dismissed>>

\* InviteDialog: submit, with an address; the user gets a temporary password.
Invite(p) ==
  /\ page.kind = "users" /\ dialog.kind = "new"
  /\ ~Pending("invite")
  /\ NewSecret(p)
  /\ Write("invite", Len(secrets) + 1)
  /\ UNCHANGED <<disabled, page, list, dialog, token, owed, dismissed>>

\* UsersPage: "Reset password".  The button stays enabled while a reset is under
\* way, and the list is not read again.
Reset(p) ==
  /\ page.kind = "users" /\ dialog.kind = "none" /\ token = 0
  /\ NewSecret(p)
  /\ Write("reset", Len(secrets) + 1)
  /\ UNCHANGED <<disabled, page, list, dialog, token, owed, dismissed>>

\* UsersPage: enable and setRole, straight from the row.
ChangeUser(op, p) ==
  /\ page.kind = "users" /\ dialog.kind = "none" /\ token = 0
  /\ list.n # Nothing
  /\ \/ op = "enable" /\ p \in disabled /\ disabled' = disabled \ {p}
     \/ op = "setRole" /\ ~Pending("setRole") /\ UNCHANGED disabled
  /\ Write(op, p)
  /\ UNCHANGED <<secrets, page, list, dialog, token, owed, dismissed>>

\* CreateEnvironmentDialog: submit, with a name that matches namePattern.
CreateEnvironment ==
  /\ page.kind = "environments" /\ dialog.kind = "new"
  /\ ~Pending("createEnv")
  /\ Write("createEnv", 0)
  /\ UNCHANGED <<secrets, disabled, page, list, dialog, token, owed, dismissed>>

\* Mutated form of Revocable: the token is looked up by its id alone.
RevocableById(id) == id \in 1..Len(secrets) /\ ~secrets[id].revoked

\* The server revokes an active token of the environment that the path names.
Revocable(id) ==
  id \in 1..Len(secrets) /\ ~secrets[id].revoked /\ secrets[id].of = page.env

\* OwnerTokens: onConfirm, with the environment of the page and the token of
\* the dialog, which the palette may have left behind from another environment.
ConfirmRevoke ==
  /\ page.kind = "tokens" /\ dialog.kind = "confirm"
  /\ ~Pending("revoke")
  /\ IF Revocable(dialog.id)
     THEN /\ secrets' = [secrets EXCEPT ![dialog.id].revoked = TRUE]
          /\ Write("revoke", dialog.id)
          /\ UNCHANGED disabled
     ELSE Refuse("revoke", dialog.id)
  /\ UNCHANGED <<page, list, dialog, token, owed, dismissed>>

\* UsersPage: onConfirm of "Disable".
ConfirmDisable ==
  /\ page.kind = "users" /\ dialog.kind = "confirm"
  /\ ~Pending("disable")
  /\ disabled' = disabled \cup {dialog.id}
  /\ Write("disable", dialog.id)
  /\ UNCHANGED <<secrets, page, list, dialog, token, owed, dismissed>>

\* setToken and setPassword; after the unmount they set nothing.
Held(r) ==
  IF r.op \in {"issue", "invite", "reset"} /\ r.by # "unmounted" THEN r.id ELSE token

\* setRevoking(null), setDisabling(null), and onClose of the dialogs that create.
ClosedBy(r) ==
  IF r.by = "unmounted" THEN dialog
  ELSE CASE r.op \in {"revoke", "disable"} /\ dialog.kind = "confirm" -> Closed
         [] r.op \in {"invite", "createEnv"} /\ dialog.kind = "new" -> Closed
         [] OTHER -> dialog

\* Mutated form of Succeeds: the list of the page is left as it is.
SucceedsQuietly(r) ==
  /\ r \in net /\ r.ok
  /\ net' = net \ {r}
  /\ token' = Held(r)
  /\ dialog' = ClosedBy(r)
  /\ owed' = IF r.op # "reset" /\ r.key = r.wrote /\ r.key = Key(page) /\ ~Joined
             THEN r.rev ELSE owed
  /\ UNCHANGED <<server, page, list, dismissed>>

\* onSuccess of every mutation.  All but the reset invalidate their list.
Succeeds(r) ==
  /\ r \in net /\ r.ok
  /\ net' = net \ {r}
  /\ list' = IF r.op = "reset" THEN list ELSE Invalidated(r.key)
  /\ token' = Held(r)
  /\ dialog' = ClosedBy(r)
  /\ owed' = IF r.op # "reset" /\ r.key = r.wrote /\ r.key = Key(page) /\ ~Joined
             THEN r.rev ELSE owed
  /\ UNCHANGED <<server, page, dismissed>>

\* A refusal, or an answer that is lost after the server has acted.
Fails(r) ==
  /\ r \in net
  /\ net' = net \ {r}
  /\ UNCHANGED <<server, page, list, dialog, token, owed, dismissed>>

-----------------------------------------------------------------------------
(* Dialogs and pages                                                       *)

OpenNew ==
  /\ dialog.kind = "none" /\ (page.kind = "users" => token = 0)
  /\ dialog' = [kind |-> "new", id |-> 0]
  /\ UNCHANGED <<server, page, list, net, token, owed, dismissed>>

\* A row of the list asks to revoke its token or to disable its user.
OpenConfirm(id) ==
  /\ dialog.kind = "none" /\ list.n # Nothing /\ (page.kind = "users" => token = 0)
  /\ \/ page.kind = "tokens" /\ id \in 1..Len(secrets) /\ secrets[id].of = page.env
     \/ page.kind = "users" /\ id \in People \ disabled
  /\ dialog' = [kind |-> "confirm", id |-> id]
  /\ UNCHANGED <<server, page, list, net, token, owed, dismissed>>

\* The secret that the user sees: the tokens page shows it in the dialog of
\* the new token, the users page in a dialog of its own.
Displayed == IF page.kind = "tokens" /\ dialog.kind # "new" THEN 0 ELSE token

\* Mutated form of Close: the dialog of the new token keeps the token.
CloseKeeping ==
  /\ dialog.kind # "none" \/ Displayed # 0
  /\ dismissed' = dismissed \cup ({Displayed} \ {0})
  /\ dialog' = Closed
  /\ UNCHANGED <<server, page, list, net, token, owed>>

\* Done, Cancel or Escape.  Closing the new token forgets it and resets the
\* mutation, which then counts as pending no longer; a token that is issued
\* afterwards waits for the next dialog.
Close ==
  /\ dialog.kind # "none" \/ Displayed # 0
  /\ dismissed' = dismissed \cup ({Displayed} \ {0})
  /\ IF page.kind = "tokens" /\ dialog.kind = "confirm" THEN token' = token ELSE token' = 0
  /\ dialog' = IF page.kind = "users" /\ Displayed # 0 THEN dialog ELSE Closed
  /\ net' = {IF r.op = "issue" /\ r.by = "held" /\ page.kind = "tokens" /\ dialog.kind = "new"
             THEN [r EXCEPT !.by = "reset"] ELSE r : r \in net}
  /\ UNCHANGED <<server, page, list, owed>>

\* What the cache holds of the list of p.
Cached(p) == {[n |-> n, req |-> "idle", got |-> 0] : n \in Nothing..rev[Key(p)]}

\* Another environment on the same page: the state stays, and the answers under
\* way invalidate the list of the new environment.
SwitchEnv(e) ==
  /\ page.kind = "tokens" /\ e # page.env
  /\ page' = [page EXCEPT !.env = e]
  /\ list' \in Cached(page')
  /\ net' = {IF r.op \in {"issue", "revoke"} /\ r.by # "unmounted"
             THEN [r EXCEPT !.key = e] ELSE r : r \in net}
  /\ owed' = 0
  /\ UNCHANGED <<server, dialog, token, dismissed>>

\* Another page: the component unmounts with its state.
Leave(p) ==
  /\ p \in Pages /\ p.kind # page.kind
  /\ page' = p
  /\ list' \in Cached(p)
  /\ net' = {[r EXCEPT !.by = "unmounted"] : r \in net}
  /\ dialog' = Closed
  /\ token' = 0
  /\ owed' = 0
  /\ UNCHANGED <<server, dismissed>>

Next ==
  \/ FetchList \/ ServeList \/ (\E ok \in BOOLEAN : ListArrives(ok))
  \/ Issue \/ CreateEnvironment \/ ConfirmRevoke \/ ConfirmDisable
  \/ \E p \in People : Invite(p) \/ Reset(p)
  \/ \E op \in {"enable", "setRole"}, p \in People : ChangeUser(op, p)
  \/ \E r \in net : Succeeds(r) \/ Fails(r)
  \/ OpenNew \/ (\E id \in Targets : OpenConfirm(id)) \/ Close
  \/ \E e \in Envs : SwitchEnv(e)
  \/ \E p \in Pages : Leave(p)

\* Reads are answered or fail.  An answer to a write may stay away.
Fairness == WF_vars(ServeList) /\ WF_vars(\E ok \in BOOLEAN : ListArrives(ok))

Spec == Init /\ [][Next]_vars /\ Fairness

-----------------------------------------------------------------------------
(* Properties                                                              *)

\* "This is the only time it is shown": a token or a temporary password whose
\* dialog was closed never comes back, whatever answers arrive later, on
\* whatever page and environment.
SecretShownOnce == Displayed # 0 => Displayed \notin dismissed

\* A revocation ends only the token that the dialog names, and only on the page
\* of the environment that the token belongs to, although the dialog survives a
\* jump to another environment.
RevokesWhatIsShown ==
  [][\A id \in 1..Len(secrets) :
       secrets'[id].revoked /\ ~secrets[id].revoked
         => dialog.id = id /\ secrets[id].of = page.env]_vars

\* A write of this tab that succeeded shows in the list of its page, unless the
\* read fails or the user goes elsewhere.
OwnWriteShows == (owed > 0) ~> (owed = 0)

=============================================================================
