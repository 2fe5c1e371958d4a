------------------------ MODULE StudioPublishProofs -------------------------
(***************************************************************************)
(* Proofs about StudioPublish, for any number of environments, versions    *)
(* and writes of other editors.                                            *)
(*                                                                         *)
(* A list can only go back when an answer that is older than the list on   *)
(* the page reaches it.  ListsInv follows the answer: it holds at least as *)
(* many versions as the list had, and both lag behind the server, whose    *)
(* histories only grow.                                                    *)
(***************************************************************************)
EXTENDS StudioPublish, TLAPS

\* The queries of the cache, without the bounds on their numbers.
AnyList == [n : Int, req : {"idle", "sent", "served"}, got : Int]
Lists == [Envs -> AnyList]

ListsType ==
  /\ draft \in [Envs -> Docs]
  /\ log \in [Envs -> Seq(Valid)]
  /\ lists \in Lists
  /\ env \in Envs

ListsLag ==
  \A e \in Envs : /\ lists[e].n <= Len(log[e])
                  /\ lists[e].req = "served" =>
                       lists[e].n <= lists[e].got /\ lists[e].got <= Len(log[e])

ListsInv == ListsType /\ ListsLag

\* What a step may do to the list of an environment: leave it, start or drop a read,
\* answer it, or show the answer.
ListStep(e) ==
  \/ lists'[e].n = lists[e].n /\ lists'[e].req \in {"idle", "sent"}
  \/ lists'[e] = lists[e]
  \/ lists'[e].n = lists[e].n /\ lists'[e].req = "served" /\ lists'[e].got = Len(log[e]) /\ log' = log
  \/ lists[e].req = "served" /\ lists'[e].n = lists[e].got /\ lists'[e].req = "idle"

\* What a step may do to the histories: leave them, or append a valid document to one.
LogStep ==
  \/ log' = log
  \/ \E e \in Envs, d \in Valid : log' = [log EXCEPT ![e] = Append(@, d)]

\* Histories only grow.
LEMMA LogGrows ==
  ASSUME ListsType, LogStep
  PROVE  log' \in [Envs -> Seq(Valid)] /\ \A e \in Envs : Len(log[e]) <= Len(log'[e])
<1>1. \A e \in Envs : Len(log[e]) \in Nat
  BY DEF ListsType
<1>2. ASSUME NEW e \in Envs, NEW d \in Valid, log' = [log EXCEPT ![e] = Append(@, d)]
      PROVE  log' \in [Envs -> Seq(Valid)] /\ \A f \in Envs : Len(log[f]) <= Len(log'[f])
  <2>1. Append(log[e], d) \in Seq(Valid) /\ Len(Append(log[e], d)) = Len(log[e]) + 1
    BY DEF ListsType
  <2> QED BY <1>1, <1>2, <2>1 DEF ListsType
<1>3. CASE log' = log
  BY <1>1, <1>3 DEF ListsType
<1> QED BY <1>2, <1>3 DEF LogStep

\* The two kinds of steps keep the lists behind the server.
LEMMA ListsStepKeeps ==
  ASSUME ListsInv, LogStep, ListsType', \A e \in Envs : ListStep(e)
  PROVE  ListsLag'
<1> SUFFICES ASSUME NEW e \in Envs
             PROVE  /\ lists'[e].n <= Len(log'[e])
                    /\ lists'[e].req = "served" =>
                         lists'[e].n <= lists'[e].got /\ lists'[e].got <= Len(log'[e])
  BY DEF ListsLag
<1>1. /\ Len(log[e]) \in Nat /\ Len(log'[e]) \in Nat /\ Len(log[e]) <= Len(log'[e])
      /\ lists[e].n \in Int /\ lists[e].got \in Int
      /\ lists'[e].n \in Int /\ lists'[e].got \in Int
  BY LogGrows DEF ListsInv, ListsType, Lists, AnyList
<1>2. /\ lists[e].n <= Len(log[e])
      /\ lists[e].req = "served" => lists[e].n <= lists[e].got /\ lists[e].got <= Len(log[e])
  BY DEF ListsInv, ListsLag
<1>3. ListStep(e)
  OBVIOUS
<1> QED BY <1>1, <1>2, <1>3 DEF ListStep

\* A query whose request changes keeps its data and its type.
LEMMA RequestChanges ==
  ASSUME NEW r \in AnyList, NEW s \in {"idle", "sent", "served"}, NEW g \in Int
  PROVE  /\ [r EXCEPT !.req = s, !.got = g] \in AnyList
         /\ [r EXCEPT !.req = s, !.got = g].n = r.n
         /\ [r EXCEPT !.req = s, !.got = g].req = s
         /\ [r EXCEPT !.req = s, !.got = g].got = g
<1> DEFINE q == [r EXCEPT !.req = s]
<1>1. q \in AnyList /\ q.n = r.n /\ q.req = s
  BY DEF AnyList
<1> HIDE DEF q
<1>2. /\ [q EXCEPT !.got = g] \in AnyList
      /\ [q EXCEPT !.got = g].n = r.n /\ [q EXCEPT !.got = g].req = s
      /\ [q EXCEPT !.got = g].got = g
  BY <1>1 DEF AnyList
<1> QED BY <1>2 DEF q

\* The helpers of the queries, list by list.
LEMMA ObservedKeeps ==
  ASSUME ListsType, NEW en \in Envs, NEW dl, lists' = Observed(lists, en, dl)
  PROVE  lists' \in Lists /\ \A e \in Envs : ListStep(e)
<1>1. \A e \in Envs : lists[e] \in AnyList
  BY DEF ListsType, Lists
<1>2. \A e \in Envs :
        lists'[e] = lists[e] \/ lists'[e] = [lists[e] EXCEPT !.req = "idle", !.got = 0]
  BY DEF Observed
<1>3. lists' \in Lists
  <2>1. \A e \in Envs : lists'[e] \in AnyList
    <3> SUFFICES ASSUME NEW e \in Envs PROVE lists'[e] \in AnyList
      OBVIOUS
    <3>1. lists[e] \in AnyList /\ 0 \in Int
      BY <1>1
    <3>2. [lists[e] EXCEPT !.req = "idle", !.got = 0] \in AnyList
      BY <3>1, RequestChanges
    <3> QED BY <1>2, <3>1, <3>2
  <2>2. lists' = [e \in Envs |-> lists'[e]]
    BY DEF Observed
  <2> QED BY <2>1, <2>2 DEF Lists
<1>4. ASSUME NEW e \in Envs PROVE ListStep(e)
  <2>1. lists[e] \in AnyList /\ 0 \in Int
    BY <1>1
  <2>2. CASE lists'[e] = lists[e]
    BY <2>2 DEF ListStep
  <2>3. CASE lists'[e] = [lists[e] EXCEPT !.req = "idle", !.got = 0]
    <3>1. /\ [lists[e] EXCEPT !.req = "idle", !.got = 0].n = lists[e].n
          /\ [lists[e] EXCEPT !.req = "idle", !.got = 0].req = "idle"
      BY <2>1, RequestChanges
    <3> QED BY <2>3, <3>1 DEF ListStep
  <2> QED BY <1>2, <2>2, <2>3
<1> QED BY <1>3, <1>4

LEMMA InvalidatedKeeps ==
  ASSUME ListsType, lists' = Invalidated(env)
  PROVE  lists' \in Lists /\ \A e \in Envs : ListStep(e)
<1>1. /\ lists \in [Envs -> AnyList]
      /\ env \in Envs
  BY DEF ListsType, Lists
<1>2. CASE lists' = lists
  BY <1>1, <1>2 DEF Lists, ListStep
<1>3. CASE lists' = [lists EXCEPT ![env].req = "sent", ![env].got = 0]
  <2>0. [lists[env] EXCEPT !.req = "sent", !.got = 0]
          \in AnyList
    <3>1. lists[env] \in AnyList /\ 0 \in Int
      BY <1>1
    <3> QED BY <3>1, RequestChanges
  <2>1. lists' \in Lists
    BY <1>1, <1>3, <2>0 DEF Lists
  <2>2. ASSUME NEW e \in Envs PROVE ListStep(e)
    BY <1>1, <1>3 DEF ListStep
  <2> QED BY <2>1, <2>2
<1> QED BY <1>2, <1>3 DEF Invalidated

-----------------------------------------------------------------------------
(* The invariant                                                           *)

LEMMA ListsInit == Init => ListsInv
<1> SUFFICES ASSUME Init PROVE ListsInv
  OBVIOUS
<1>1. ListsType
  BY PublishAssumption DEF Init, ListsType, Lists, AnyList, Nothing
<1>2. \A e \in Envs : Len(log[e]) \in Nat
  BY <1>1 DEF ListsType
<1>3. ListsLag
  BY <1>2 DEF Init, ListsLag, Nothing
<1> QED BY <1>1, <1>3 DEF ListsInv

\* Every step is of the two kinds.
LEMMA StepsSplit ==
  ASSUME ListsInv, [Next]_vars
  PROVE  ListsType' /\ LogStep /\ \A e \in Envs : ListStep(e)
<1> USE DEF ListsInv
<1> DEFINE Goal == ListsType' /\ LogStep /\ \A e \in Envs : ListStep(e)
<1> SUFFICES Goal
  OBVIOUS
<1>1. ASSUME UNCHANGED <<log, lists>>, draft' \in [Envs -> Docs], env' \in Envs PROVE Goal
  BY <1>1 DEF ListsType, LogStep, ListStep
<1>2. ASSUME UNCHANGED <<draft, log>>, env' \in Envs, lists' \in Lists, \A e \in Envs : ListStep(e)
      PROVE  Goal
  BY <1>2 DEF ListsType, LogStep
<1>3. ASSUME NEW e \in Envs, NEW d \in Valid, Append1(e, d), UNCHANGED <<draft, env, lists>>
      PROVE  Goal
  <2>1. LogStep
    BY <1>3 DEF LogStep, Append1
  <2> QED BY <1>3, <2>1, LogGrows DEF ListsType, ListStep
<1>4. ASSUME NEW e \in Envs, OtherEditor(e) PROVE Goal
  <2>1. CASE UNCHANGED log /\ \E d \in Docs \ {draft[e]} : draft' = [draft EXCEPT ![e] = d]
    BY <1>1, <1>4, <2>1 DEF OtherEditor, ListsType
  <2>2. CASE draft[e] \in Valid /\ Append1(e, draft[e]) /\ UNCHANGED draft
    BY <1>3, <1>4, <2>2 DEF OtherEditor
  <2> QED BY <1>4, <2>1, <2>2 DEF OtherEditor
<1>5. ASSUME NEW e \in Envs, SwitchEnv(e) PROVE Goal
  BY <1>2, <1>5, ObservedKeeps DEF SwitchEnv, server
<1>6. ASSUME NEW e \in Envs, FetchList(e) PROVE Goal
  <2>1. lists' = [lists EXCEPT ![e].req = "sent"] /\ UNCHANGED <<draft, log, env>>
    BY <1>6 DEF FetchList, server
  <2>2. lists' \in Lists /\ \A f \in Envs : ListStep(f)
    BY <2>1 DEF ListsType, Lists, AnyList, ListStep
  <2> QED BY <1>2, <2>1, <2>2 DEF ListsType
<1>7. ASSUME NEW e \in Envs, ServeList(e) PROVE Goal
  <2>1. /\ lists' = [lists EXCEPT ![e].req = "served", ![e].got = Len(log[e])]
        /\ UNCHANGED <<draft, log, env>> /\ Len(log[e]) \in Nat
    BY <1>7 DEF ServeList, server, ListsType
  <2>2. [lists[e] EXCEPT !.req = "served", !.got = Len(log[e])]
          \in AnyList
    <3>1. lists[e] \in AnyList /\ Len(log[e]) \in Int
      BY <2>1 DEF ListsType, Lists
    <3> QED BY <3>1, RequestChanges
  <2>3. lists' \in Lists
    BY <2>1, <2>2 DEF ListsType, Lists
  <2>4. ASSUME NEW f \in Envs PROVE ListStep(f)
    BY <2>1, <2>2 DEF ListsType, Lists, AnyList, ListStep
  <2> QED BY <1>2, <2>1, <2>3, <2>4 DEF ListsType
<1>8. ASSUME NEW e \in Envs, NEW ok \in BOOLEAN, ListArrives(e, ok) PROVE Goal
  <2>1. PICK n \in {lists[e].n, lists[e].got} :
          lists' = [lists EXCEPT ![e] = [n |-> n, req |-> "idle", got |-> 0]]
    BY <1>8 DEF ListArrives
  <2>2. lists[e].req = "served" /\ UNCHANGED <<draft, log, env>>
    BY <1>8 DEF ListArrives, server
  <2>3. lists' \in Lists /\ \A f \in Envs : ListStep(f)
    BY <2>1, <2>2 DEF ListsType, Lists, AnyList, ListStep
  <2> QED BY <1>2, <2>2, <2>3 DEF ListsType
<1>9. CASE Review \/ (\E ok \in BOOLEAN : ReviewArrives(ok)) \/ WriteFails \/ PromoteSucceeds
  BY <1>1, <1>9 DEF Review, ReviewArrives, WriteFails, PromoteSucceeds, server, ListsType
<1>10. CASE Publish
  BY <1>1, <1>3, <1>10 DEF Publish, ListsType
<1>11. CASE PublishSucceeds \/ RollbackSucceeds
  BY <1>2, <1>11, InvalidatedKeeps DEF PublishSucceeds, RollbackSucceeds, server, ListsType
<1>12. CASE ViewVersion \/ OpenPromote \/ (\E n \in 1..MaxVersions : AskRollback(n))
  BY <1>1, <1>12 DEF ViewVersion, OpenPromote, AskRollback, Opens, server, ListsType
<1>13. CASE CloseDialog
  BY <1>2, <1>13, ObservedKeeps DEF CloseDialog, server, ListsType
<1>14. CASE ConfirmRollback
  <2>1. CASE dialog.n \in 1..Len(log[env])
    <3>1. log[env][dialog.n] \in Valid
      BY <2>1 DEF ListsType
    <3> QED BY <1>3, <1>14, <2>1, <3>1 DEF ConfirmRollback, ListsType
  <2>2. CASE dialog.n \notin 1..Len(log[env])
    BY <1>1, <1>14, <2>2 DEF ConfirmRollback, ListsType
  <2> QED BY <2>1, <2>2
<1>15. ASSUME NEW from \in Envs, NEW n \in 1..MaxVersions, Promote(from, n) PROVE Goal
  <2>1. CASE n \in 1..Len(log[from])
    <3>1. log[from][n] \in Docs
      BY <2>1, PublishAssumption DEF ListsType
    <3> QED BY <1>1, <1>15, <2>1, <3>1 DEF Promote, ListsType
  <2>2. CASE n \notin 1..Len(log[from])
    BY <1>1, <1>15, <2>2 DEF Promote, ListsType
  <2> QED BY <2>1, <2>2
<1>16. CASE UNCHANGED vars
  BY <1>1, <1>16 DEF vars, server, ListsType
<1> HIDE DEF Goal
<1>17. CASE Next
  BY <1>4, <1>5, <1>6, <1>7, <1>8, <1>9, <1>10, <1>11, <1>12, <1>13, <1>14, <1>15, <1>17 DEF Next
<1> QED BY <1>16, <1>17

LEMMA ListsAlways == Spec => []ListsInv
<1>1. ListsInv /\ [Next]_vars => ListsInv'
  BY StepsSplit, ListsStepKeeps DEF ListsInv
<1> QED BY <1>1, ListsInit, PTL DEF Spec

-----------------------------------------------------------------------------
(* Theorems                                                                *)

\* VersionsPage, the list queries and their invalidations: for any number of
\* environments and versions, no list on the page is replaced by an older one.
THEOREM PublishHistoryNeverBackwards == Spec => HistoryNeverBackwards
<1>1. ASSUME ListsInv, [Next]_vars PROVE \A e \in Envs : lists'[e].n >= lists[e].n
  <2> SUFFICES ASSUME NEW e \in Envs PROVE lists'[e].n >= lists[e].n
    OBVIOUS
  <2>1. ListStep(e)
    BY <1>1, StepsSplit
  <2>2. /\ lists[e].n \in Int /\ lists[e].got \in Int
        /\ lists[e].req = "served" => lists[e].n <= lists[e].got
    BY <1>1 DEF ListsInv, ListsType, Lists, AnyList, ListsLag
  <2> QED BY <2>1, <2>2 DEF ListStep
<1> QED BY <1>1, ListsAlways, PTL DEF Spec, HistoryNeverBackwards

\* PublishPanel: for any number of environments and versions, a review on the screen
\* was shown since the last publish that the tab knows of.
THEOREM PublishOneReview == Spec => []OneReviewOnePublish
<1>1. Init => OneReviewOnePublish
  BY DEF Init, OneReviewOnePublish, Unseen
<1>2. OneReviewOnePublish /\ [Next]_vars => OneReviewOnePublish'
  <2> SUFFICES ASSUME OneReviewOnePublish, [Next]_vars PROVE OneReviewOnePublish'
    OBVIOUS
  <2>1. ASSUME UNCHANGED <<preview, licence>> PROVE OneReviewOnePublish'
    BY <2>1 DEF OneReviewOnePublish
  <2>2. CASE Review
    BY <2>2 DEF Review, OneReviewOnePublish
  <2>3. ASSUME NEW ok \in BOOLEAN, ReviewArrives(ok) PROVE OneReviewOnePublish'
    BY <2>3 DEF ReviewArrives, OneReviewOnePublish, Unseen
  <2>4. CASE PublishSucceeds
    BY <2>4 DEF PublishSucceeds, OneReviewOnePublish, Unseen
  <2>5. ASSUME NEW e \in Envs,
               OtherEditor(e) \/ SwitchEnv(e) \/ FetchList(e) \/ ServeList(e)
                 \/ \E ok \in BOOLEAN : ListArrives(e, ok)
        PROVE  UNCHANGED <<preview, licence>>
    BY <2>5 DEF OtherEditor, SwitchEnv, FetchList, ServeList, ListArrives
  <2>6. ASSUME \/ Publish \/ WriteFails \/ ViewVersion \/ OpenPromote \/ CloseDialog
               \/ ConfirmRollback \/ RollbackSucceeds \/ PromoteSucceeds
               \/ (\E n \in 1..MaxVersions : AskRollback(n))
               \/ (\E from \in Envs, n \in 1..MaxVersions : Promote(from, n))
               \/ UNCHANGED vars
        PROVE  UNCHANGED <<preview, licence>>
    BY <2>6 DEF Publish, WriteFails, ViewVersion, OpenPromote, CloseDialog, ConfirmRollback,
                RollbackSucceeds, PromoteSucceeds, AskRollback, Opens, Promote, vars
  <2> QED BY <2>1, <2>2, <2>3, <2>4, <2>5, <2>6 DEF Next
<1> QED BY <1>1, <1>2, PTL DEF Spec

=============================================================================
