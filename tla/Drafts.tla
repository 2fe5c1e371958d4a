------------------------------- MODULE Drafts -------------------------------
(***************************************************************************)
(* The shared draft of one environment (internal/studio/draft.go, and      *)
(* replaceDraft of publish.go): browser tabs that load, save and delete    *)
(* resources with a base revision, and imports and promotions that replace *)
(* the whole draft in one transaction.                                     *)
(*                                                                         *)
(* Every statement is atomic.  A save is two of them: the write, guarded   *)
(* by the revision, and a read of the row for the reply.  replaceDraft     *)
(* reads the revisions first and writes later; what may happen in between  *)
(* depends on the database RESTITCH_DATABASE_URL names.  PostgreSQL runs   *)
(* the transaction at READ COMMITTED; SQLite refuses to let a transaction  *)
(* write after the database changed behind its snapshot.  There is one     *)
(* replaceDraft at a time: of two that overlap SQLite refuses the later.   *)
(*                                                                         *)
(* A body is the number of the write that stored it, so two bodies are     *)
(* equal only when they are the same save.  born is history: the write     *)
(* that created the row, which the table does not hold.                    *)
(***************************************************************************)
EXTENDS Naturals

CONSTANTS
  Keys,       \* resources, each a (kind, name)
  Tabs,       \* open editors
  Dialect,    \* the database: "postgres" or "sqlite"
  MaxWrites   \* bound: statements that change the table

ASSUME DraftsAssumption == Dialect \in {"postgres", "sqlite"} /\ MaxWrites \in Nat

VARIABLES
  row,     \* rows of studio_resources
  tab,     \* the copy an editor holds
  import,  \* the replaceDraft transaction in progress
  writes   \* the number of writes so far

draftsVars == <<row, tab, import, writes>>

\* No row, and what an editor of a resource that is not there starts from.
NoRow == [rev |-> 0, body |-> 0, born |-> 0]
Exists(k) == row[k] # NoRow

Rows == [rev : Nat, body : Nat, born : Nat]
Closed == [pc |-> "closed"]
Tab(k, pc, copy) == [pc |-> pc, key |-> k, copy |-> copy]
NoImport == [pc |-> "none"]

DraftsTypeOK ==
  /\ row \in [Keys -> Rows]
  /\ tab \in [Tabs -> {Closed} \cup
               [pc : {"open", "saved", "error"}, key : Keys, copy : Rows]]
  /\ import \in {NoImport} \cup
               [pc : {"read"}, set : SUBSET Keys, snap : [Keys -> Rows], at : Nat]
  /\ writes \in Nat

DraftsInit ==
  /\ row = [k \in Keys |-> NoRow]
  /\ tab = [t \in Tabs |-> Closed]
  /\ import = NoImport
  /\ writes = 0

-----------------------------------------------------------------------------
(* One editor                                                              *)

\* getResource: a tab opens, or reloads; 404 opens an empty form, revision 0.
Load(t, k) ==
  /\ tab[t] # Closed => tab[t].key = k
  /\ tab[t].pc # "saved"
  /\ tab' = [tab EXCEPT ![t] = Tab(k, "open", row[k])]
  /\ UNCHANGED <<row, import, writes>>

\* The user may press Save again after an error.
CanSubmit(t) == tab[t].pc \in {"open", "error"} /\ writes < MaxWrites

\* A statement stores r at k for tab t, whose request is then in state pc.
Store(t, k, r, pc) ==
  /\ row' = [row EXCEPT ![k] = r]
  /\ tab' = [tab EXCEPT ![t].pc = pc]
  /\ writes' = writes + 1
  /\ UNCHANGED import

\* saveResource with base 0: INSERT ... ON CONFLICT DO NOTHING.
SaveCreate(t) ==
  LET k == tab[t].key IN
  /\ CanSubmit(t)
  /\ tab[t].copy.rev = 0
  /\ ~Exists(k)
  /\ Store(t, k, [rev |-> 1, body |-> writes + 1, born |-> writes + 1], "saved")

\* saveResource with a base: UPDATE ... WHERE revision = base.
SaveUpdate(t) ==
  LET k == tab[t].key IN
  /\ CanSubmit(t)
  /\ tab[t].copy.rev # 0
  /\ Exists(k)
  /\ row[k].rev = tab[t].copy.rev
  /\ Store(t, k, [rev |-> row[k].rev + 1, body |-> writes + 1, born |-> row[k].born], "saved")

\* The write of a save or a delete matched no row: 409, or 404 when the row is
\* gone.  The editor keeps its copy and offers to reload.
RefuseSave(t) ==
  /\ tab[t].pc = "open"
  /\ row[tab[t].key].rev # tab[t].copy.rev
  /\ tab' = [tab EXCEPT ![t].pc = "error"]
  /\ UNCHANGED <<row, import, writes>>

\* Mutated form of SaveReply: the reply pairs the body that was sent with the
\* revision that was read.
SaveReplyOwnBody(t) ==
  LET k == tab[t].key IN
  /\ tab[t].pc = "saved"
  /\ Exists(k)
  /\ tab' = [tab EXCEPT ![t] = Tab(k, "open", [row[k] EXCEPT !.body = tab[t].copy.body])]
  /\ UNCHANGED <<row, import, writes>>

\* saveResource reads the row back, whoever wrote it last; the editor shows it.
SaveReply(t) ==
  LET k == tab[t].key IN
  /\ tab[t].pc = "saved"
  /\ Exists(k)
  /\ tab' = [tab EXCEPT ![t] = Tab(k, "open", row[k])]
  /\ UNCHANGED <<row, import, writes>>

\* The reply is lost, or is 404 because the row is gone by now: the editor
\* still holds the copy from before its own save.
SaveReplyLost(t) ==
  /\ tab[t].pc = "saved"
  /\ tab' = [tab EXCEPT ![t].pc = "error"]
  /\ UNCHANGED <<row, import, writes>>

\* deleteResource: DELETE ... WHERE revision = base; the editor closes.
Delete(t) ==
  LET k == tab[t].key IN
  /\ CanSubmit(t)
  /\ tab[t].copy.rev # 0
  /\ Exists(k)
  /\ row[k].rev = tab[t].copy.rev
  /\ row' = [row EXCEPT ![k] = NoRow]
  /\ tab' = [tab EXCEPT ![t] = Closed]
  /\ writes' = writes + 1
  /\ UNCHANGED import

-----------------------------------------------------------------------------
(* replaceDraft, for an import or a promotion of the resources in set      *)

\* The transaction reads the revisions of the draft.
ImportRead(set) ==
  /\ import = NoImport
  /\ import' = [pc |-> "read", set |-> set, snap |-> row, at |-> writes]
  /\ UNCHANGED <<row, tab, writes>>

\* SQLite fails a write of a transaction whose snapshot is no longer current.
WriteAllowed == Dialect = "sqlite" => import.at = writes

\* A resource the snapshot has keeps counting; the others start at revision 1.
Imported(k) ==
  IF import.snap[k] = NoRow
  THEN [rev |-> 1, body |-> writes + 1, born |-> writes + 1]
  ELSE [rev |-> import.snap[k].rev + 1, body |-> writes + 1, born |-> import.snap[k].born]

\* Mutated form of ImportCommit: every imported resource starts at revision 1.
ImportCommitFromOne ==
  /\ import # NoImport
  /\ WriteAllowed
  /\ writes < MaxWrites
  /\ row' = [k \in Keys |->
       IF k \in import.set THEN [Imported(k) EXCEPT !.rev = 1] ELSE NoRow]
  /\ writes' = writes + 1
  /\ import' = NoImport
  /\ UNCHANGED tab

\* The draft is deleted, the resources are inserted, and the transaction commits.
ImportCommit ==
  /\ import # NoImport
  /\ WriteAllowed
  /\ writes < MaxWrites
  /\ row' = [k \in Keys |-> IF k \in import.set THEN Imported(k) ELSE NoRow]
  /\ writes' = writes + 1
  /\ import' = NoImport
  /\ UNCHANGED tab

\* A statement or the commit fails: the transaction is rolled back.
ImportFail ==
  /\ import # NoImport
  /\ import' = NoImport
  /\ UNCHANGED <<row, tab, writes>>

TabNext(t) ==
  \/ \E k \in Keys : Load(t, k)
  \/ SaveCreate(t)
  \/ SaveUpdate(t)
  \/ RefuseSave(t)
  \/ SaveReply(t)
  \/ SaveReplyLost(t)
  \/ Delete(t)

DraftsNext ==
  \/ \E t \in Tabs : TabNext(t)
  \/ \E set \in SUBSET Keys : ImportRead(set)
  \/ ImportCommit
  \/ ImportFail

DraftsSpec == DraftsInit /\ [][DraftsNext]_draftsVars

-----------------------------------------------------------------------------
(* Properties                                                              *)

\* The saves and deletes of tab t would be accepted now.
Accepted(t) ==
  tab[t] # Closed /\ tab[t].copy.rev # 0 /\ tab[t].copy.rev = row[tab[t].key].rev

\* As long as the row was not deleted and created again, an editor whose save
\* would be accepted has seen the content it is about to overwrite: no save,
\* reply, import or promotion of anyone else is lost.
NoLostUpdate ==
  \A t \in Tabs :
    Accepted(t) /\ tab[t].copy.born = row[tab[t].key].born =>
      tab[t].copy.body = row[tab[t].key].body

\* While a row lives its revision only goes up, and every change of the body
\* moves it; imports and promotions included.
RevisionsCountUp ==
  [][\A k \in Keys :
       row'[k] # row[k] /\ row[k] # NoRow /\ row'[k] # NoRow /\ row'[k].born = row[k].born =>
         row'[k].rev > row[k].rev]_draftsVars

\* A row, or a copy of one, comes from one of the first n writes.
Stored(r, n) ==
  r # NoRow => r.rev >= 1 /\ r.born >= 1 /\ r.born <= n /\ r.body <= n

\* A copy from the life of row r is either current or has a smaller revision.
CopyOf(c, r) ==
  c # NoRow /\ r # NoRow /\ c.born = r.born =>
    c.rev <= r.rev /\ (c.rev = r.rev => c.body = r.body)

\* The strengthening NoLostUpdate is proved from, on SQLite: besides the copies,
\* a transaction that may still write has read the rows as they are.
DraftsInv ==
  /\ DraftsTypeOK
  /\ \A k \in Keys : Stored(row[k], writes)
  /\ \A t \in Tabs : tab[t] # Closed =>
       Stored(tab[t].copy, writes) /\ CopyOf(tab[t].copy, row[tab[t].key])
  /\ import # NoImport => import.at <= writes /\ (import.at = writes => import.snap = row)

\* publish.go, replaceDraft: "A resource that existed keeps counting revisions
\* up, so a tab that holds an older revision still gets 409".  On PostgreSQL a
\* save that commits between the two halves of the transaction takes the very
\* number the import then gives to other content.
OlderTabRefused ==
  \A t \in Tabs :
    LET r == row[tab[t].key] IN
    tab[t] # Closed /\ tab[t].copy.born = r.born /\ tab[t].copy.body < r.body => ~Accepted(t)

=============================================================================
