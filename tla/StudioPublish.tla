--------------------------- MODULE StudioPublish ----------------------------
(***************************************************************************)
(* The publish page of Studio (studio/src/features/publish/VersionsPage):  *)
(* the panel that reviews and publishes the draft, the history, the dialogs*)
(* that view a version, roll back and promote, and the list queries of the *)
(* TanStack Query cache behind them.                                       *)
(*                                                                         *)
(* The route does not key the page by its environment, so the state of the *)
(* panel and of the dialogs survives a jump to another environment in the  *)
(* command palette, which opens over a dialog too.  A mutation under way   *)
(* runs its onSuccess with the environment of the latest render.           *)
(*                                                                         *)
(* A draft, and so a version, is one of Docs.  The history of an           *)
(* environment only grows, so the list that a tab holds is its length.     *)
(* The server acts on a write when the user makes it; the answer reaches   *)
(* the tab later, or never.  One write of the tab is under way at a time.  *)
(***************************************************************************)
EXTENDS Integers, Sequences, FiniteSetsExt

CONSTANTS
  Envs, NoEnv,
  Docs,
  Valid,         \* the drafts that the gateway's validator accepts
  Drafts0, Log0, \* the drafts and the versions at the start
  MaxVersions,   \* bound: versions of all environments together
  MaxOthers      \* bound: writes of other editors

ASSUME PublishAssumption ==
  /\ NoEnv \notin Envs
  /\ Valid \subseteq Docs
  /\ Drafts0 \in [Envs -> Docs]
  /\ Log0 \in [Envs -> Seq(Valid)]
  /\ MaxVersions \in Nat /\ MaxOthers \in Nat

VARIABLES
  draft, log,   \* server: the draft and the versions of each environment
  others,       \* writes of other editors so far
  env,          \* the environment of the page
  lists,        \* listVersions(e): number of versions, -1 without data; request
  preview,      \* the review that the panel waits for or shows
  write,        \* the publish, rollback or promotion whose answer is awaited
  dialog,       \* rollbackTo, viewing, promoting
  diff,         \* PromoteDialog shows the diff of a promotion
  owed,         \* history: a version of this tab that the list on the page must show
  licence       \* history: a review was shown since the last publish

vars == <<draft, log, others, env, lists, preview, write, dialog, diff, owed, licence>>
server == <<draft, log, others>>

Nothing == -1
Unseen == [st |-> "none", doc |-> CHOOSE d \in Docs : TRUE, diff |-> FALSE]
NoWrite == [op |-> "none", env |-> NoEnv, n |-> 0, ok |-> FALSE]
Closed == [kind |-> "none", n |-> 0]

\* listVersions, previewPublish, and the mutations of the page.
List == [n : Nothing..MaxVersions, req : {"idle", "sent", "served"}, got : 0..MaxVersions]
Preview == [st : {"none", "pending", "shown"}, doc : Docs, diff : BOOLEAN]
Write == [op : {"none", "publish", "rollback", "promote"}, env : Envs \cup {NoEnv},
          n : 0..MaxVersions, ok : BOOLEAN]

TypeOK ==
  /\ draft \in [Envs -> Docs]
  /\ log \in [Envs -> Seq(Valid)]
  /\ others \in 0..MaxOthers
  /\ env \in Envs
  /\ lists \in [Envs -> List]
  /\ preview \in Preview
  /\ write \in Write
  /\ dialog \in [kind : {"none", "view", "rollback", "promote"}, n : 0..MaxVersions]
  /\ diff \in BOOLEAN
  /\ owed \in 0..MaxVersions
  /\ licence \in BOOLEAN

Init ==
  /\ draft = Drafts0
  /\ log = Log0
  /\ others = 0
  /\ env \in Envs
  /\ lists = [e \in Envs |-> [n |-> Nothing, req |-> "idle", got |-> 0]]
  /\ preview = Unseen
  /\ write = NoWrite
  /\ dialog = Closed
  /\ diff = FALSE
  /\ owed = 0
  /\ licence = FALSE

-----------------------------------------------------------------------------
(* The server                                                              *)

Append1(e, d) == log' = [log EXCEPT ![e] = Append(@, d)]
HasRoom == MapThenSumSet(LAMBDA e : Len(log[e]), Envs) < MaxVersions

\* Another editor saves the draft or publishes it.
OtherEditor(e) ==
  /\ others < MaxOthers
  /\ others' = others + 1
  /\ \/ /\ \E d \in Docs \ {draft[e]} : draft' = [draft EXCEPT ![e] = d]
        /\ UNCHANGED log
     \/ /\ draft[e] \in Valid /\ HasRoom
        /\ Append1(e, draft[e])
        /\ UNCHANGED draft
  /\ UNCHANGED <<env, lists, preview, write, dialog, diff, owed, licence>>

-----------------------------------------------------------------------------
(* The list queries                                                        *)

\* The page observes its own list, and the promotion that of its source.
Mounted(e) == e = env \/ dialog.kind = "promote"

\* The request of a query that nobody observes any longer is aborted.
Observed(ls, en, dl) ==
  [e \in Envs |-> IF e = en \/ dl.kind = "promote" THEN ls[e]
                  ELSE [ls[e] EXCEPT !.req = "idle", !.got = 0]]

\* useQuery: fetched without data, fetched again when stale.
FetchList(e) ==
  /\ Mounted(e)
  /\ lists[e].req = "idle"
  /\ lists' = [lists EXCEPT ![e].req = "sent"]
  /\ UNCHANGED <<server, env, preview, write, dialog, diff, owed, licence>>

\* listVersions: the server reads the versions.
ServeList(e) ==
  /\ lists[e].req = "sent"
  /\ lists' = [lists EXCEPT ![e].req = "served", ![e].got = Len(log[e])]
  /\ UNCHANGED <<server, env, preview, write, dialog, diff, owed, licence>>

\* The list replaces what was shown; an error leaves it.
ListArrives(e, ok) ==
  /\ lists[e].req = "served"
  /\ lists' = [lists EXCEPT ![e] =
       [n |-> IF ok THEN @.got ELSE @.n, req |-> "idle", got |-> 0]]
  /\ owed' = IF e = env /\ (~ok \/ lists[e].got >= owed) THEN 0 ELSE owed
  /\ UNCHANGED <<server, env, preview, write, dialog, diff, licence>>

\* Mutated form of Invalidated: a request that is under way is left to answer.
InvalidatedLater(e) ==
  IF lists[e].req = "idle" THEN [lists EXCEPT ![e].req = "sent"] ELSE lists

\* Mutated form of Invalidated: the query is reset, so that its data goes.
InvalidatedByReset(e) == [lists EXCEPT ![e] = [n |-> Nothing, req |-> "sent", got |-> 0]]

\* qc.invalidateQueries on listVersions(e): a mounted list is read again.  The
\* request under way is aborted, but joined when the list has no data yet.
Invalidated(e) ==
  IF lists[e].req # "idle" /\ lists[e].n = Nothing THEN lists
  ELSE [lists EXCEPT ![e].req = "sent", ![e].got = 0]

-----------------------------------------------------------------------------
(* The panel                                                               *)

\* The command palette jumps to the page of another environment.
SwitchEnv(e) ==
  /\ e # env
  /\ env' = e
  /\ lists' = Observed(lists, e, dialog)
  /\ owed' = 0
  /\ UNCHANGED <<server, preview, write, dialog, diff, licence>>

\* PublishPanel: "Review changes".  The earlier review goes; the server renders
\* the draft and compares it with the newest version.
Review ==
  LET changes == Len(log[env]) = 0 \/ log[env][Len(log[env])] # draft[env]
  IN /\ dialog.kind = "none"
     /\ preview.st # "pending"
     /\ preview' = [st |-> "pending", doc |-> draft[env], diff |-> changes]
     /\ UNCHANGED <<server, env, lists, write, dialog, diff, owed, licence>>

\* The answer, or an error, reaches the panel, whatever environment it is in.
ReviewArrives(ok) ==
  /\ preview.st = "pending"
  /\ preview' = IF ok THEN [preview EXCEPT !.st = "shown"] ELSE Unseen
  /\ licence' = (licence \/ ok)
  /\ UNCHANGED <<server, env, lists, write, dialog, diff, owed>>

\* A write is answered with its version, or refused.
Sent(op, n, ok) == write' = [op |-> op, env |-> env, n |-> n, ok |-> ok]

\* PublishPanel: submit, with a message.  The request names the environment and
\* the message, not what was reviewed: the server validates and appends the
\* draft that it holds.
Publish ==
  /\ dialog.kind = "none"
  /\ preview.st = "shown" /\ preview.doc \in Valid /\ preview.diff
  /\ write.op = "none"
  /\ IF draft[env] \in Valid
     THEN /\ HasRoom
          /\ Append1(env, draft[env])
          /\ Sent("publish", Len(log[env]) + 1, TRUE)
     ELSE Sent("publish", 0, FALSE) /\ UNCHANGED log
  /\ UNCHANGED <<draft, others, env, lists, preview, dialog, diff, owed, licence>>

\* The version is owed to the list when the invalidation of the environment on
\* the page is the one that the write needs, and starts a read after it.
Owed ==
  IF write.env = env /\ (lists[env].n # Nothing \/ lists[env].req = "idle")
  THEN write.n ELSE owed

\* Mutated form of PublishSucceeds: the review stays on the screen.
PublishSucceedsOpen ==
  /\ write.op = "publish" /\ write.ok
  /\ write' = NoWrite
  /\ lists' = Invalidated(env)
  /\ owed' = Owed
  /\ licence' = FALSE
  /\ UNCHANGED <<server, env, preview, dialog, diff>>

\* PublishPanel: onSuccess, in the environment of the latest render.  The reset
\* also detaches a review that is under way.
PublishSucceeds ==
  /\ write.op = "publish" /\ write.ok
  /\ write' = NoWrite
  /\ lists' = Invalidated(env)
  /\ preview' = Unseen
  /\ owed' = Owed
  /\ licence' = FALSE
  /\ UNCHANGED <<server, env, dialog, diff>>

\* A write is refused, or its answer is lost after the server has written.  The
\* error shows, and the same button sends the write again.
WriteFails ==
  /\ write.op # "none"
  /\ write' = NoWrite
  /\ UNCHANGED <<server, env, lists, preview, dialog, diff, owed, licence>>

-----------------------------------------------------------------------------
(* The dialogs                                                             *)

Opens(kind, n) ==
  /\ dialog.kind = "none"
  /\ dialog' = [kind |-> kind, n |-> n]
  /\ UNCHANGED <<server, env, lists, preview, write, diff, owed, licence>>

\* VersionDialog: the content of a version, whichever, and its secret names.
ViewVersion == lists[env].n > 0 /\ Opens("view", 0)

\* The history offers to roll back to all versions but the newest of the list.
AskRollback(n) == n \in 1..(lists[env].n - 1) /\ Opens("rollback", n)

OpenPromote == Opens("promote", 0)

\* Escape, Cancel or Done.  The answer of a write under way is still handled.
CloseDialog ==
  /\ dialog.kind # "none"
  /\ dialog' = Closed
  /\ diff' = (diff /\ dialog.kind # "promote")
  /\ lists' = Observed(lists, env, Closed)
  /\ UNCHANGED <<server, env, preview, write, owed, licence>>

\* VersionsPage: onConfirm of the rollback.  The server appends the content of
\* the version; 404 when the environment has no such version, which happens
\* when the palette has changed the environment under the dialog.
ConfirmRollback ==
  /\ dialog.kind = "rollback"
  /\ write.op = "none"
  /\ IF dialog.n \in 1..Len(log[env])
     THEN /\ HasRoom
          /\ Append1(env, log[env][dialog.n])
          /\ Sent("rollback", Len(log[env]) + 1, TRUE)
     ELSE Sent("rollback", 0, FALSE) /\ UNCHANGED log
  /\ UNCHANGED <<draft, others, env, lists, preview, dialog, diff, owed, licence>>

\* VersionsPage: onSuccess of the rollback, in the environment of the latest
\* render; it closes whatever rollback dialog is open by then.
RollbackSucceeds ==
  /\ write.op = "rollback" /\ write.ok
  /\ write' = NoWrite
  /\ lists' = Invalidated(env)
  /\ dialog' = IF dialog.kind = "rollback" THEN Closed ELSE dialog
  /\ owed' = Owed
  /\ UNCHANGED <<server, env, preview, diff, licence>>

\* PromoteDialog: "Replace the draft".  The choices of both selects outlive a
\* change of the source and of the page's environment, so that any version of
\* any environment may be asked for; 404 when there is none.
Promote(from, n) ==
  /\ dialog.kind = "promote" /\ ~diff
  /\ write.op = "none"
  /\ n \in 1..MaxVersions
  /\ IF n \in 1..Len(log[from])
     THEN /\ draft' = [draft EXCEPT ![env] = log[from][n]]
          /\ Sent("promote", 0, TRUE)
     ELSE Sent("promote", 0, FALSE) /\ UNCHANGED draft
  /\ UNCHANGED <<log, others, env, lists, preview, dialog, diff, owed, licence>>

\* PromoteDialog: onSuccess puts the diff in the place of the form, also in a
\* dialog that was closed meanwhile, which then opens with it.  A review on the
\* page behind stays.
PromoteSucceeds ==
  /\ write.op = "promote" /\ write.ok
  /\ write' = NoWrite
  /\ diff' = TRUE
  /\ UNCHANGED <<server, env, lists, preview, dialog, owed, licence>>

Next ==
  \/ \E e \in Envs : \/ OtherEditor(e) \/ SwitchEnv(e)
                     \/ FetchList(e) \/ ServeList(e)
                     \/ (\E ok \in BOOLEAN : ListArrives(e, ok))
  \/ Review \/ (\E ok \in BOOLEAN : ReviewArrives(ok))
  \/ Publish \/ PublishSucceeds \/ WriteFails
  \/ ViewVersion \/ OpenPromote \/ (\E n \in 1..MaxVersions : AskRollback(n))
  \/ CloseDialog \/ ConfirmRollback \/ RollbackSucceeds
  \/ (\E from \in Envs, n \in 1..MaxVersions : Promote(from, n)) \/ PromoteSucceeds

\* Reads are answered or fail, and answers are handled.
Fairness == \A e \in Envs :
  /\ WF_vars(ServeList(e))
  /\ WF_vars(\E ok \in BOOLEAN : ListArrives(e, ok))

Spec == Init /\ [][Next]_vars /\ Fairness

-----------------------------------------------------------------------------
(* Properties                                                              *)

\* The history never goes back to an older list, whatever reads, invalidations
\* and jumps between environments overlap.
HistoryNeverBackwards ==
  [][\A e \in Envs : lists'[e].n >= lists[e].n]_vars

\* A version that this tab published or rolled back to shows in its history,
\* unless the read fails or the user leaves the environment.
OwnVersionShows ==
  (owed > 0) ~> (owed = 0)

\* One review, one publish: a publish that the tab knows to have succeeded uses
\* up the review on the screen, and a review that was under way with it.
OneReviewOnePublish ==
  preview.st = "shown" => licence

\* "Review the changes since the current version, then publish them": what a
\* publish of this tab writes is what the panel shows.
PublishesWhatWasReviewed ==
  [][write'.op = "publish" /\ write'.ok /\ write.op = "none"
       => log'[env] = Append(log[env], preview.doc)]_vars

=============================================================================
