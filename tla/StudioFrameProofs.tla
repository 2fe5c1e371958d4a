------------------------- MODULE StudioFrameProofs --------------------------
(***************************************************************************)
(* Proofs about what frames every page of Studio: the session of the tab,  *)
(* and the shell with its palette, dialogs and keyboard.                   *)
(*                                                                         *)
(* StudioSession, for any number of users, pages and changes of the        *)
(* session by other tabs.  NoForeignData speaks of what the shell shows;   *)
(* data gets there through answers that are still under way and through    *)
(* screens that show nothing.  OneSession follows them all: while no other *)
(* tab signed in and no own sign-in was answered, every user in the cache, *)
(* as data or in an answer, is the same one, and the one of the cookie if  *)
(* there is a session.                                                     *)
(*                                                                         *)
(* StudioShell, for any environments, pages, roles and entries.  ShellInv  *)
(* says that the keyboard handler sees the page and role of the screen,    *)
(* also while nobody is signed in, and that an open dialog is filled and   *)
(* has no timer left that would empty it.  What the palette lists has the  *)
(* types its scores need; that its first entry is the best one follows     *)
(* from what the sort, the limit of a group and the order of groups do to  *)
(* a sequence of any length.                                               *)
(***************************************************************************)
EXTENDS StudioSession, StudioShell, FiniteSetTheorems, WellFoundedInduction, TLAPS

-----------------------------------------------------------------------------
(* The session                                                             *)

\* The user u is in the cache c, as the data of a query or in the answer to its read.
SeenIn(c, u) == \E q \in Queries : c[q].data = u \/ c[q].req = u

\* The tab has not been told of a session that the cached data may not be from.
Settles == ~foreign /\ ~(post.form = "login" /\ post.answer = "ok")

OneSession ==
  Settles => \A u, v \in Users :
               SeenIn(cache, u) => /\ SeenIn(cache, v) => u = v
                                   /\ session # NoUser => u = session

SessionInv == TypeOK /\ OneSession

-----------------------------------------------------------------------------
(* What the helpers leave in the cache                                     *)

\* A cleared cache is a cache, and holds no user.
LEMMA ClearForgets ==
  /\ Clear \in [Queries -> Query]
  /\ \A q \in Queries : Clear[q].data \notin Users /\ Clear[q].req \notin Users
BY SessionAssumption DEF Clear, Unfetched, Query, Refusals

\* Unmounting the shell leaves a cache, with the same data and no new answer.
LEMMA RenderedKeeps ==
  ASSUME NEW l, NEW c \in [Queries -> Query]
  PROVE  /\ Rendered(l, c) \in [Queries -> Query]
         /\ \A q \in Queries : /\ Rendered(l, c)[q].data = c[q].data
                               /\ Rendered(l, c)[q].req \in {c[q].req, "idle"}
BY DEF Rendered, Query, Queries

\* An answer that is handled becomes data or an error, and brings no user that
\* the query did not hold.
LEMMA SettledKeeps ==
  ASSUME cache \in [Queries -> Query], NEW q \in Queries,
         cache[q].req \notin {"idle", "sent"}
  PROVE  /\ Settled(q) \in Query
         /\ Settled(q).data \in {cache[q].data, cache[q].req}
         /\ Settled(q).req = "idle"
<1>1. cache[q] \in Query
  OBVIOUS
<1>2. CASE cache[q].req \in Users
  BY <1>1, <1>2 DEF Settled, Query
<1>3. CASE cache[q].req \notin Users
  BY <1>1, <1>3 DEF Settled, Query, Refusals
<1> QED BY <1>2, <1>3

-----------------------------------------------------------------------------
(* The invariant                                                           *)

\* A step that brings no user into the cache, and no new session but the end of
\* one, keeps the cache to one session.
LEMMA NothingNew ==
  ASSUME OneSession, Settles' => Settles, session' \in {session, NoUser},
         \A u \in Users : SeenIn(cache', u) => SeenIn(cache, u)
  PROVE  OneSession'
BY DEF OneSession

\* A step that clears the cache keeps it to one session.
LEMMA Cleared ==
  ASSUME cache' = Clear
  PROVE  OneSession'
BY ClearForgets DEF OneSession, SeenIn

\* The handler of 401 answers, given a cache without new users.
LEMMA UnauthorizedKeeps ==
  ASSUME SessionInv, NEW c \in [Queries -> Query], OnUnauthorized(c),
         \A u \in Users : SeenIn(c, u) => SeenIn(cache, u),
         session' = session, temporary' = temporary, elsewhere' = elsewhere,
         matched' = matched, post' \in Post, ~(post.form = "login" /\ post.answer = "ok")
  PROVE  SessionInv'
<1>1. TypeOK'
  BY ClearForgets DEF SessionInv, TypeOK, OnUnauthorized
<1>2. OneSession'
  <2>1. CASE loc = Login
    BY <2>1, NothingNew DEF SessionInv, OnUnauthorized, Settles
  <2>2. CASE loc # Login
    BY <2>2, Cleared DEF OnUnauthorized
  <2> QED BY <2>1, <2>2
<1> QED BY <1>1, <1>2 DEF SessionInv

LEMMA SessionInit == Init => SessionInv
<1> SUFFICES ASSUME Init PROVE SessionInv
  OBVIOUS
<1>1. cache = Clear
  BY DEF Init, Clear
<1>2. TypeOK
  <2>1. cache \in [Queries -> Query] /\ post \in Post
    BY <1>1, ClearForgets DEF Init, NoPost, Post
  <2>2. elsewhere \in 0..MaxElsewhere
    BY SessionAssumption DEF Init
  <2>3. foreign \in BOOLEAN /\ changed \in BOOLEAN
    BY Zenon DEF Init
  <2>4. session \in Users \cup {NoUser} /\ temporary \subseteq Users
    BY SessionAssumption DEF Init
  <2>5. /\ loc \in Pages \cup {Login} /\ matched \in Pages \cup {Login}
        /\ redirect \in Pages \cup {Login, NoPage}
    BY DEF Init
  <2> QED BY <2>1, <2>2, <2>3, <2>4, <2>5 DEF TypeOK
<1>3. OneSession
  BY <1>1, ClearForgets DEF OneSession, SeenIn
<1> QED BY <1>2, <1>3 DEF SessionInv

\* Reads: a read is sent, is answered in the session of the cookie, and arrives.
LEMMA FetchKeeps ==
  ASSUME SessionInv, NEW q \in Queries, Fetch(q) \/ Refetch(q)
  PROVE  SessionInv'
<1>1. cache' = [cache EXCEPT ![q].req = "sent"] /\ cache \in [Queries -> Query]
  BY DEF Fetch, Refetch, SessionInv, TypeOK
<1>2. TypeOK'
  BY <1>1 DEF SessionInv, TypeOK, Fetch, Refetch, Query
<1>3. \A u \in Users : SeenIn(cache', u) => SeenIn(cache, u)
  BY <1>1, SessionAssumption DEF SeenIn, Query
<1>4. OneSession'
  BY <1>3, NothingNew DEF SessionInv, Fetch, Refetch, Settles
<1> QED BY <1>2, <1>4 DEF SessionInv

LEMMA ServeReadKeeps ==
  ASSUME SessionInv, NEW q \in Queries, ServeRead(q)
  PROVE  SessionInv'
<1>1. PICK a \in {Answer, "lost"} : cache' = [cache EXCEPT ![q].req = a]
  BY DEF ServeRead
<1>2. cache \in [Queries -> Query] /\ session \in Users \cup {NoUser}
  BY DEF SessionInv, TypeOK
<1>3. a \in Refusals \/ (a \in Users /\ a = session)
  BY <1>2 DEF Answer, Refusals
<1>4. TypeOK'
  BY <1>1, <1>3 DEF SessionInv, TypeOK, ServeRead, Query
<1>5. \A u \in Users : SeenIn(cache', u) => SeenIn(cache, u) \/ u = a
  BY <1>1, <1>2 DEF SeenIn, Query
<1>6. OneSession'
  <2>1. CASE a \in Refusals
    <3>1. a \notin Users
      BY <2>1, SessionAssumption DEF Refusals
    <3> QED BY <3>1, <1>5, NothingNew DEF SessionInv, ServeRead, Settles
  <2>2. CASE a \in Users /\ a = session
    BY <2>2, <1>5, SessionAssumption DEF SessionInv, ServeRead, OneSession, Settles
  <2> QED BY <1>3, <2>1, <2>2
<1> QED BY <1>4, <1>6 DEF SessionInv

LEMMA ReadKeeps ==
  ASSUME SessionInv, NEW q \in Queries, Read(q)
  PROVE  SessionInv'
<1> DEFINE c == [cache EXCEPT ![q] = Settled(q)]
<1>1. cache \in [Queries -> Query]
  BY DEF SessionInv, TypeOK
<1>2. /\ Settled(q) \in Query
      /\ Settled(q).data \in {cache[q].data, cache[q].req}
      /\ Settled(q).req = "idle"
  BY <1>1, SettledKeeps DEF Read
<1>3. c \in [Queries -> Query]
  BY <1>1, <1>2
<1>4. \A u \in Users : SeenIn(c, u) => SeenIn(cache, u)
  BY <1>1, <1>2, SessionAssumption DEF SeenIn
<1>5. CASE cache[q].req = "unauthorized"
  <2>1. CASE post.form = "login" /\ post.answer = "ok"
    <3>1. TypeOK'
      BY <1>3, <1>5, ClearForgets DEF c, SessionInv, TypeOK, Read, OnUnauthorized
    <3>2. ~Settles'
      BY <2>1 DEF Settles, Read
    <3> QED BY <3>1, <3>2 DEF SessionInv, OneSession
  <2>2. CASE ~(post.form = "login" /\ post.answer = "ok")
    <3>1. OnUnauthorized(c)
      BY <1>5 DEF c, Read
    <3>2. /\ session' = session /\ temporary' = temporary /\ elsewhere' = elsewhere
          /\ matched' = matched /\ post' \in Post
      BY DEF Read, SessionInv, TypeOK
    <3> HIDE DEF c
    <3> QED BY <2>2, <1>3, <1>4, <3>1, <3>2, UnauthorizedKeeps
  <2> QED BY <2>1, <2>2
<1>6. CASE cache[q].req # "unauthorized"
  <2>1. cache' = Rendered(loc, c)
    BY <1>6 DEF c, Read
  <2> HIDE DEF c
  <2>2. /\ cache' \in [Queries -> Query]
        /\ \A r \in Queries : cache'[r].data = c[r].data /\ cache'[r].req \in {c[r].req, "idle"}
    BY <2>1, <1>3, RenderedKeeps
  <2>3. TypeOK'
    BY <1>6, <2>2 DEF SessionInv, TypeOK, Read
  <2>4. \A u \in Users : SeenIn(cache', u) => SeenIn(cache, u)
    BY <1>4, <2>2, SessionAssumption DEF SeenIn
  <2>5. OneSession'
    BY <1>6, <2>4, NothingNew DEF SessionInv, Read, Settles
  <2> QED BY <2>3, <2>5 DEF SessionInv
<1> QED BY <1>5, <1>6

\* Steps of the router and the effects change the page and, at most, unmount the shell.
LEMMA NavigationKeeps ==
  ASSUME SessionInv, NEW p \in Pages \cup {Login},
         loc' = p, cache' \in {cache, Rendered(p, cache)},
         matched' \in Pages \cup {Login}, redirect' \in Pages \cup {Login, NoPage},
         UNCHANGED <<session, temporary, elsewhere, post, foreign, changed>>
  PROVE  SessionInv'
<1>1. /\ cache' \in [Queries -> Query]
      /\ \A q \in Queries : cache'[q].data = cache[q].data /\ cache'[q].req \in {cache[q].req, "idle"}
  BY RenderedKeeps DEF SessionInv, TypeOK
<1>2. TypeOK'
  BY <1>1 DEF SessionInv, TypeOK
<1>3. \A u \in Users : SeenIn(cache', u) => SeenIn(cache, u)
  BY <1>1, SessionAssumption DEF SeenIn
<1>4. OneSession'
  BY <1>3, NothingNew DEF SessionInv, Settles
<1> QED BY <1>2, <1>4 DEF SessionInv

\* Steps that clear the cache and go to a page.
LEMMA LeavingKeeps ==
  ASSUME SessionInv, cache' = Clear, loc' \in Pages \cup {Login},
         redirect' \in Pages \cup {Login, NoPage}, post' \in Post,
         foreign' = FALSE, changed' = FALSE,
         UNCHANGED <<session, temporary, elsewhere, matched>>
  PROVE  SessionInv'
<1>1. foreign' \in BOOLEAN /\ changed' \in BOOLEAN
  BY Zenon
<1>2. TypeOK'
  BY <1>1, ClearForgets DEF SessionInv, TypeOK
<1> QED BY <1>2, Cleared DEF SessionInv

\* Steps that send a form or answer it, leave the cache alone, and at most end the session.
LEMMA PostKeeps ==
  ASSUME SessionInv, post' \in Post, temporary' \subseteq Users,
         session' \in {session, NoUser}, Settles' => Settles,
         UNCHANGED <<elsewhere, loc, matched, redirect, cache, foreign, changed>>
  PROVE  SessionInv'
<1>1. TypeOK'
  BY DEF SessionInv, TypeOK
<1>2. OneSession'
  BY NothingNew DEF SessionInv
<1> QED BY <1>1, <1>2 DEF SessionInv

\* What a form may be answered with.
LEMMA AnswersTyped ==
  ASSUME post \in Post, NEW S, S \subseteq {"ok", "refused", "unauthorized", "lost"}, Answers(S)
  PROVE  post' \in Post /\ post'.form = post.form /\ post'.answer \in S
BY DEF Answers, Post

LEMMA ServeLoginKeeps ==
  ASSUME SessionInv, ServeLogin
  PROVE  SessionInv'
<1>1. post \in Post /\ post.form = "login" /\ post.answer = "none"
  BY DEF SessionInv, TypeOK, ServeLogin, Waiting
<1>2. CASE /\ session' = post.as
           /\ Answers({"ok", "lost"})
           /\ foreign' = (foreign \/ post'.answer = "lost")
           /\ changed' = FALSE
  <2>1. post' \in Post /\ post'.form = "login" /\ post'.answer \in {"ok", "lost"}
    BY <1>1, <1>2, AnswersTyped
  <2>2. foreign' \in BOOLEAN /\ changed' \in BOOLEAN
    BY <1>2, Zenon
  <2>3. TypeOK'
    BY <1>1, <1>2, <2>1, <2>2 DEF SessionInv, TypeOK, ServeLogin, Post
  <2>4. ~Settles'
    BY <1>2, <2>1 DEF Settles
  <2> QED BY <2>3, <2>4 DEF SessionInv, OneSession
<1>3. CASE /\ Answers({"unauthorized", "lost"})
           /\ UNCHANGED <<session, foreign, changed>>
  <2>1. post' \in Post /\ post'.form = "login" /\ post'.answer \in {"unauthorized", "lost"}
    BY <1>1, <1>3, AnswersTyped
  <2>2. /\ temporary' \subseteq Users /\ (Settles' => Settles)
        /\ UNCHANGED <<session, elsewhere, loc, matched, redirect, cache, foreign, changed>>
    BY <1>1, <1>3 DEF SessionInv, TypeOK, ServeLogin, Settles
  <2> QED BY <2>1, <2>2, PostKeeps
<1> QED BY <1>2, <1>3 DEF ServeLogin

LEMMA LoginFailsKeeps ==
  ASSUME SessionInv, LoginFails
  PROVE  SessionInv'
<1>1. post' \in Post /\ ~(post.form = "login" /\ post.answer = "ok")
  BY DEF LoginFails, Answered, NoPost, Post, SessionInv, TypeOK
<1>2. CASE post.answer = "unauthorized"
  <2>1. OnUnauthorized(cache) /\ cache \in [Queries -> Query]
    BY <1>2 DEF LoginFails, SessionInv, TypeOK
  <2>2. session' = session /\ temporary' = temporary /\ elsewhere' = elsewhere /\ matched' = matched
    BY DEF LoginFails
  <2> QED BY <1>1, <2>1, <2>2, UnauthorizedKeeps
<1>3. CASE post.answer # "unauthorized"
  <2>1. /\ UNCHANGED <<session, elsewhere, loc, matched, redirect, cache, foreign, changed>>
        /\ temporary' \subseteq Users
    BY <1>3 DEF LoginFails, SessionInv, TypeOK
  <2>2. Settles' => Settles
    BY <1>1, <2>1 DEF Settles
  <2> QED BY <1>1, <2>1, <2>2, PostKeeps
<1> QED BY <1>2, <1>3

LEMMA ServePasswordKeeps ==
  ASSUME SessionInv, ServePassword
  PROVE  SessionInv'
<1>1. post \in Post /\ post.form = "password"
  BY DEF SessionInv, TypeOK, ServePassword, Waiting
<1>2. post' \in Post /\ post'.form = "password"
  BY <1>1, AnswersTyped DEF ServePassword
<1>3. /\ temporary' \subseteq Users
      /\ UNCHANGED <<session, elsewhere, loc, matched, redirect, cache, foreign, changed>>
  BY DEF ServePassword, SessionInv, TypeOK
<1>4. Settles' => Settles
  BY <1>1, <1>3 DEF Settles
<1> QED BY <1>2, <1>3, <1>4, PostKeeps

LEMMA PasswordAnsweredKeeps ==
  ASSUME SessionInv, PasswordAnswered
  PROVE  SessionInv'
<1>1. post' \in Post /\ post.form = "password" /\ post'.form = "none" /\ cache \in [Queries -> Query]
  BY DEF PasswordAnswered, Answered, NoPost, Post, SessionInv, TypeOK
<1>2. UNCHANGED <<session, temporary, elsewhere, matched>>
  BY DEF PasswordAnswered
<1>3. CASE post.answer = "unauthorized"
  <2>1. OnUnauthorized(cache)
    BY <1>3 DEF PasswordAnswered
  <2> QED BY <1>1, <1>2, <2>1, UnauthorizedKeeps
<1>4. CASE post.answer = "ok"
  <2>1. /\ cache' \in {cache, [cache EXCEPT !["me"].req = "sent"]}
        /\ changed' = (changed \/ OpensPages)
        /\ UNCHANGED <<loc, redirect, foreign>>
    BY <1>4 DEF PasswordAnswered
  <2>2. /\ cache' \in [Queries -> Query]
        /\ \A q \in Queries : cache'[q].data = cache[q].data /\ cache'[q].req \in {cache[q].req, "sent"}
    BY <1>1, <2>1 DEF Query, Queries
  <2>3. changed' \in BOOLEAN
    BY <2>1, Zenon
  <2>4. TypeOK'
    BY <1>1, <1>2, <2>1, <2>2, <2>3 DEF SessionInv, TypeOK
  <2>5. \A u \in Users : SeenIn(cache', u) => SeenIn(cache, u)
    BY <2>2, SessionAssumption DEF SeenIn
  <2>6. OneSession'
    BY <1>1, <1>2, <2>1, <2>5, NothingNew DEF SessionInv, Settles
  <2> QED BY <2>4, <2>6 DEF SessionInv
<1>5. CASE post.answer \notin {"unauthorized", "ok"}
  <2>1. /\ UNCHANGED <<elsewhere, loc, matched, redirect, cache, foreign, changed>>
        /\ temporary' \subseteq Users /\ session' = session
    BY <1>2, <1>5 DEF PasswordAnswered, SessionInv, TypeOK
  <2>2. Settles' => Settles
    BY <1>1, <2>1 DEF Settles
  <2> QED BY <1>1, <2>1, <2>2, PostKeeps
<1> QED BY <1>3, <1>4, <1>5

LEMMA ServeSignOutKeeps ==
  ASSUME SessionInv, ServeSignOut
  PROVE  SessionInv'
<1>1. post \in Post /\ post.form = "signout"
  BY DEF SessionInv, TypeOK, ServeSignOut, Waiting
<1>2. post' \in Post /\ post'.form = "signout"
  BY <1>1, AnswersTyped DEF ServeSignOut
<1>3. /\ temporary' \subseteq Users /\ session' \in {session, NoUser}
      /\ UNCHANGED <<elsewhere, loc, matched, redirect, cache, foreign, changed>>
  BY DEF ServeSignOut, SessionInv, TypeOK
<1>4. Settles' => Settles
  BY <1>1, <1>3 DEF Settles
<1> QED BY <1>2, <1>3, <1>4, PostKeeps

LEMMA SessionChangesKeeps ==
  ASSUME SessionInv, NEW u \in Users \cup {NoUser}, SessionChanges(u)
  PROVE  SessionInv'
<1>1. foreign' \in BOOLEAN /\ changed' \in BOOLEAN
  BY Zenon DEF SessionChanges
<1>2. elsewhere' \in 0..MaxElsewhere
  BY SessionAssumption DEF SessionChanges, SessionInv, TypeOK
<1>3. TypeOK'
  BY <1>1, <1>2 DEF SessionChanges, SessionInv, TypeOK
<1>4. OneSession'
  <2>1. CASE u \in Users
    BY <2>1 DEF SessionChanges, OneSession, Settles
  <2>2. CASE u = NoUser
    BY <2>2, NothingNew DEF SessionChanges, SessionInv, Settles
  <2> QED BY <2>1, <2>2
<1> QED BY <1>3, <1>4 DEF SessionInv

-----------------------------------------------------------------------------
(* Theorems                                                                *)

LEMMA SessionStep == SessionInv /\ [Next]_vars => SessionInv'
<1> SUFFICES ASSUME SessionInv, [Next]_vars PROVE SessionInv'
  OBVIOUS
<1> USE DEF vars
<1>0. post \in Post /\ NoPost \in Post /\ loc \in Pages \cup {Login}
      /\ matched \in Pages \cup {Login} /\ redirect \in Pages \cup {Login, NoPage}
      /\ temporary \subseteq Users
  BY DEF SessionInv, TypeOK, NoPost, Post
<1>1. ASSUME NEW q \in Queries, Fetch(q) \/ Refetch(q) \/ Read(q) \/ ServeRead(q) PROVE SessionInv'
  BY <1>1, FetchKeeps, ReadKeeps, ServeReadKeeps
<1>2. CASE Commit
  BY <1>0, <1>2, NavigationKeeps DEF Commit
<1>3. CASE RootEffect
  BY <1>0, <1>3, NavigationKeeps DEF RootEffect
<1>4. CASE LoginEffect
  BY <1>0, <1>4, NavigationKeeps, SessionAssumption DEF LoginEffect
<1>5. ASSUME NEW p \in Pages, Goto(p) PROVE SessionInv'
  BY <1>0, <1>5, NavigationKeeps DEF Goto
<1>6. ASSUME NEW form \in {"login", "password", "signout"}, NEW u \in Users \cup {NoUser},
             Submit(form, u)
      PROVE  SessionInv'
  <2>1. /\ post' \in Post /\ temporary' \subseteq Users /\ session' = session
        /\ UNCHANGED <<elsewhere, loc, matched, redirect, cache, foreign, changed>>
    BY <1>0, <1>6 DEF Submit, Post
  <2>2. Settles' => Settles
    BY <1>6 DEF Submit, Settles
  <2> QED BY <2>1, <2>2, PostKeeps
<1>7. CASE LoginSucceeds
  <2>1. SafeRedirect(redirect) \in Pages \cup {Login}
    BY SessionAssumption DEF SafeRedirect
  <2> QED BY <1>0, <1>7, <2>1, LeavingKeeps DEF LoginSucceeds
<1>8. CASE LoginFails
  BY <1>8, LoginFailsKeeps
<1>9. CASE PasswordAnswered
  BY <1>9, PasswordAnsweredKeeps
<1>10. CASE UseAnotherAccount
  BY <1>0, <1>10, LeavingKeeps DEF UseAnotherAccount
<1>11. CASE SignOutAnswered
  BY <1>0, <1>11, LeavingKeeps DEF SignOutAnswered
<1>12. CASE ServeLogin
  BY <1>12, ServeLoginKeeps
<1>13. CASE ServePassword
  BY <1>13, ServePasswordKeeps
<1>14. CASE ServeSignOut
  BY <1>14, ServeSignOutKeeps
<1>15. ASSUME NEW u \in Users \cup {NoUser}, SessionChanges(u) PROVE SessionInv'
  BY <1>15, SessionChangesKeeps
<1>16. CASE UNCHANGED vars
  <2>1. UNCHANGED <<session, temporary, elsewhere, loc, matched, redirect, cache, post, foreign, changed>>
    BY <1>16
  <2> QED BY <1>0, <2>1, PostKeeps DEF Settles
<1>17. CASE Tab
  BY <1>1, <1>2, <1>3, <1>4, <1>5, <1>6, <1>7, <1>8, <1>9, <1>10, <1>11, <1>17
     DEF Tab, SubmitLogin, SubmitPassword, SignOut
<1>18. CASE Server
  BY <1>1, <1>12, <1>13, <1>14, <1>15, <1>18 DEF Server
<1> QED BY <1>16, <1>17, <1>18 DEF Next

\* Every state that the tab reaches has the types of TypeOK and keeps the cache to
\* one session.
LEMMA SessionAlways == Spec => []SessionInv
BY SessionInit, SessionStep, PTL DEF Spec

\* RootShell, the query cache and useSignOut: the shell never lists what was read in
\* the session of another user, for any number of users and pages, whatever answers
\* are under way when a session ends or begins.
THEOREM SessionNoForeignData == Spec => []NoForeignData
<1>1. SessionInv => NoForeignData
  <2> SUFFICES ASSUME SessionInv, Shown = "shell", ~foreign, post.form # "login",
                      cache["list"].data # NoUser
               PROVE  cache["list"].data = cache["me"].data
    BY DEF NoForeignData
  <2>1. cache["me"] \in Query /\ cache["list"] \in Query
    BY DEF SessionInv, TypeOK, Queries
  <2>2. cache["me"].error = "none" /\ cache["me"].data # NoUser
    BY DEF Shown, Screen
  <2>3. cache["me"].data \in Users /\ cache["list"].data \in Users
    BY <2>1, <2>2 DEF Query
  <2>4. SeenIn(cache, cache["me"].data) /\ SeenIn(cache, cache["list"].data)
    BY DEF SeenIn, Queries
  <2> QED BY <2>3, <2>4 DEF SessionInv, OneSession, Settles
<1> QED BY <1>1, SessionAlways, PTL

\* RootShell's 401 handler and effect, LoginPage: the sign-in page is never its own
\* destination.
THEOREM SessionRedirectIsPage == Spec => []RedirectIsPage
<1>1. Init => RedirectIsPage
  BY SessionAssumption DEF Init, RedirectIsPage
<1>2. RedirectIsPage /\ [Next]_vars => RedirectIsPage'
  <2> SUFFICES ASSUME RedirectIsPage, [Next]_vars PROVE RedirectIsPage'
    OBVIOUS
  <2>1. ASSUME NEW c, OnUnauthorized(c) PROVE RedirectIsPage'
    BY <2>1 DEF OnUnauthorized, RedirectIsPage
  <2>2. ASSUME redirect' \in {redirect, NoPage} PROVE RedirectIsPage'
    BY <2>2, SessionAssumption DEF RedirectIsPage
  <2>3. ASSUME NEW q \in Queries, Fetch(q) \/ Refetch(q) \/ Read(q) \/ ServeRead(q)
        PROVE  RedirectIsPage'
    BY <2>1, <2>2, <2>3 DEF Fetch, Refetch, Read, ServeRead
  <2>4. CASE RootEffect
    BY <2>4 DEF RootEffect, RedirectIsPage
  <2>5. CASE LoginFails \/ PasswordAnswered
    BY <2>1, <2>2, <2>5 DEF LoginFails, PasswordAnswered
  <2>6. ASSUME NEW form, NEW u, Submit(form, u) PROVE RedirectIsPage'
    BY <2>2, <2>6 DEF Submit
  <2>7. CASE \/ Commit \/ LoginEffect \/ LoginSucceeds \/ UseAnotherAccount \/ SignOutAnswered
             \/ \E p \in Pages : Goto(p)
    BY <2>2, <2>7 DEF Commit, LoginEffect, LoginSucceeds, UseAnotherAccount, SignOutAnswered, Goto
  <2>8. CASE \/ ServeLogin \/ ServePassword \/ ServeSignOut
             \/ \E u \in Users \cup {NoUser} : SessionChanges(u)
    BY <2>2, <2>8 DEF ServeLogin, ServePassword, ServeSignOut, SessionChanges
  <2>9. CASE UNCHANGED vars
    BY <2>2, <2>9 DEF vars
  <2>10. CASE Tab
    BY <2>3, <2>4, <2>5, <2>6, <2>7, <2>10 DEF Tab, SubmitLogin, SubmitPassword, SignOut
  <2>11. CASE Server
    BY <2>3, <2>8, <2>11 DEF Server
  <2> QED BY <2>9, <2>10, <2>11 DEF Next
<1> QED BY <1>1, <1>2, PTL DEF Spec

-----------------------------------------------------------------------------
(* The shell                                                               *)

\* The handler of the keyboard sees the role and the page on the screen, and a shell
\* that is mounted again begins outside the environments.
HandlerIsCurrent ==
  /\ bound = [role |-> role, env |-> page.env]
  /\ ~on => page.env = NoEnv

LayerState == [open : BOOLEAN, rendered : BOOLEAN, fading : BOOLEAN]

\* A dialog that is open shows its content, and no timer is about to take it away.
Filled(k) == k.open => k.rendered /\ ~k.fading

AllFilled(y) == y \in [Layers -> LayerState] /\ \A l \in Layers : Filled(y[l])

\* The environments, and outside of them.
Places == Envs \cup {NoEnv}

\* What an entry of the palette is.
Groups == {"Actions", "Go to", "Environments", "Resources"}
Whens == {"both", "search", "idle", "never"}
Entries == [group : Groups, label : Labels, env : Places, min : Roles, when : Whens,
            run : {"navigate", "newEnvironment", "newResource", "sheet"}]

\* What the palette lists and scores is there.
PaletteTyped ==
  /\ page.env \in Places /\ newIn \in Places
  /\ known \in {<<>>, EnvList}
  /\ search \in [query : Scores \cup {NoQuery}, active : Nat]

\* All three.
ShellInv == HandlerIsCurrent /\ AllFilled(layer) /\ PaletteTyped

LEMMA InitShellInv == ShellInit => ShellInv
<1> SUFFICES ASSUME ShellInit PROVE ShellInv
  OBVIOUS
<1>1. Away \in LayerState /\ Filled(Away)
  BY DEF Away, LayerState, Filled
<1>2. layer = [l \in Layers |-> Away]
  BY DEF ShellInit
<1>3. HandlerIsCurrent
  BY DEF ShellInit, ShellHome, HandlerIsCurrent
<1>4. PaletteTyped
  BY DEF ShellInit, ShellHome, Places, Start, PaletteTyped
<1> QED BY <1>1, <1>2, <1>3, <1>4 DEF ShellInv, AllFilled

\* Opening a dialog, closing one and the end of a fade leave every open one filled.
LEMMA LayerChanges ==
  ASSUME AllFilled(layer), NEW l \in Layers
  PROVE  /\ AllFilled(Opened(l)) /\ AllFilled(Closed(l))
         /\ layer[l].fading => AllFilled([layer EXCEPT ![l].rendered = FALSE, ![l].fading = FALSE])
         /\ AllFilled([Closed("palette") EXCEPT ![l] = Opened(l)[l]])
<1>1. \A m \in Layers : layer[m] \in LayerState /\ Filled(layer[m])
  BY DEF AllFilled
<1>2. ASSUME NEW y \in [Layers -> LayerState], \A m \in Layers : Filled(y[m]),
             NEW m \in Layers, NEW k \in LayerState, Filled(k)
      PROVE  AllFilled([y EXCEPT ![m] = k])
  BY <1>2 DEF AllFilled
<1> DEFINE shown == [open |-> TRUE, rendered |-> TRUE, fading |-> FALSE]
           shut(m) == [open |-> FALSE, rendered |-> layer[m].rendered, fading |-> TRUE]
           ended == [layer[l] EXCEPT !.rendered = FALSE, !.fading = FALSE]
<1>3. shown \in LayerState /\ Filled(shown)
  BY DEF LayerState, Filled
<1>4. \A m \in Layers : shut(m) \in LayerState /\ Filled(shut(m))
  BY <1>1 DEF LayerState, Filled
<1>5. AllFilled(Opened(l)) /\ Opened(l)[l] = shown
  BY <1>2, <1>3 DEF AllFilled, Opened
<1>6. \A m \in Layers : AllFilled(Closed(m))
  <2> SUFFICES ASSUME NEW m \in Layers PROVE AllFilled(Closed(m))
    OBVIOUS
  <2> HIDE DEF shut
  <2>1. Closed(m) = [layer EXCEPT ![m] = IF layer[m].open THEN shut(m) ELSE layer[m]]
    BY DEF Closed, AllFilled, shut
  <2> QED BY <1>1, <1>2, <1>4, <2>1 DEF AllFilled
<1>7. ASSUME layer[l].fading
      PROVE  AllFilled([layer EXCEPT ![l].rendered = FALSE, ![l].fading = FALSE])
  <2>1. ended \in LayerState /\ Filled(ended)
    BY <1>1, <1>7 DEF LayerState, Filled
  <2>2. [layer EXCEPT ![l].rendered = FALSE, ![l].fading = FALSE] = [layer EXCEPT ![l] = ended]
    BY DEF AllFilled
  <2> HIDE DEF ended
  <2> QED BY <1>2, <2>1, <2>2 DEF AllFilled
<1>8. AllFilled([Closed("palette") EXCEPT ![l] = Opened(l)[l]])
  <2>1. AllFilled(Closed("palette"))
    BY <1>6 DEF Layers
  <2> HIDE DEF shown
  <2> QED BY <1>2, <1>3, <1>5, <2>1 DEF AllFilled
<1> QED BY <1>5, <1>6, <1>7, <1>8

\* Every step of the shell leaves open dialogs filled.
LEMMA LayersStayFilled ==
  ASSUME AllFilled(layer), ShellNext
  PROVE  AllFilled(layer')
<1>1. "palette" \in Layers /\ "sheet" \in Layers
  BY DEF Layers
<1>2. CASE UNCHANGED layer
  BY <1>2
<1>3. ASSUME NEW l \in Layers, FadeEnds(l) \/ CloseLayer(l) PROVE AllFilled(layer')
  BY <1>3, LayerChanges DEF FadeEnds, CloseLayer
<1>4. CASE TogglePalette \/ OpenPalette \/ ShowSheet
  BY <1>1, <1>4, LayerChanges DEF TogglePalette, OpenPalette, ShowSheet
<1>5. CASE Choose
  <2>1. PICK it : Run(it)
    BY <1>5 DEF Choose
  <2>2. CASE it.run \in Layers
    BY <2>1, <2>2, LayerChanges DEF Run
  <2>3. CASE it.run \notin Layers
    BY <1>1, <2>1, <2>3, LayerChanges DEF Run
  <2> QED BY <2>2, <2>3
<1>6. CASE ShellSignOut
  <2>1. Away \in LayerState /\ Filled(Away) /\ layer' = [l \in Layers |-> Away]
    BY <1>6 DEF ShellSignOut, Away, LayerState, Filled
  <2> QED BY <2>1 DEF AllFilled
<1>7. ASSUME NEW p \in ShellPages, EndChord(p) \/ FollowLink(p) \/ FollowTab(p) \/ OpenRow(p)
      PROVE  UNCHANGED layer
  BY <1>7 DEF EndChord, FollowLink, FollowTab, OpenRow, palette
<1>8. ASSUME NEW r \in Roles, RoleChanges(r) \/ SignIn(r) PROVE UNCHANGED layer
  BY <1>8 DEF RoleChanges, SignIn, palette
<1>9. ASSUME NEW i \in 1..Len(toasts),
             PointerEnters(i) \/ PointerLeaves(i) \/ TimerFires(i) \/ Dismiss(i) \/ ToastGoes(i)
      PROVE  UNCHANGED layer
  BY <1>9 DEF PointerEnters, PointerLeaves, TimerFires, Dismiss, ToastGoes, palette
<1>10. CASE StartChord \/ ChordExpires \/ PaletteLoads \/ Move \/ Toast
  BY <1>10 DEF StartChord, ChordExpires, PaletteLoads, Move, Toast, palette
<1>11. ASSUME NEW c \in BOOLEAN, LeaveNewResource(c) PROVE UNCHANGED layer
  BY <1>11 DEF LeaveNewResource
<1>12. ASSUME NEW q \in Scores, Type(q) PROVE UNCHANGED layer
  BY <1>12 DEF Type
<1> QED BY <1>2, <1>3, <1>4, <1>5, <1>6, <1>7, <1>8, <1>9, <1>10, <1>11, <1>12 DEF ShellNext, Notices

\* A step that navigates registers the handler for the page it leads to.
LEMMA NavigateKeeps ==
  ASSUME HandlerIsCurrent, on, NEW p, navigate(p), UNCHANGED <<on, role>>
  PROVE  HandlerIsCurrent'
  BY DEF HandlerIsCurrent, navigate, Rebound

LEMMA StayKeeps ==
  ASSUME HandlerIsCurrent, UNCHANGED <<on, role, page, bound>>
  PROVE  HandlerIsCurrent'
  BY DEF HandlerIsCurrent

LEMMA HandlerStaysCurrent ==
  ASSUME HandlerIsCurrent, ShellNext
  PROVE  HandlerIsCurrent'
<1>1. ASSUME NEW p \in ShellPages, EndChord(p) \/ FollowLink(p) \/ FollowTab(p) \/ OpenRow(p)
      PROVE  HandlerIsCurrent'
  BY <1>1, NavigateKeeps, StayKeeps DEF EndChord, FollowLink, FollowTab, OpenRow
<1>2. ASSUME NEW r \in Roles, RoleChanges(r) \/ SignIn(r) PROVE HandlerIsCurrent'
  BY <1>2 DEF RoleChanges, SignIn, Rebound, HandlerIsCurrent
<1>3. CASE ShellSignOut
  BY <1>3 DEF ShellSignOut, ShellHome, HandlerIsCurrent
<1>4. CASE Choose
  <2>1. PICK it : Run(it)
    BY <1>4 DEF Choose
  <2>2. on /\ UNCHANGED <<on, role>>
    BY <1>4, <2>1 DEF Choose, InPalette, Run
  <2>3. CASE it.run = "navigate"
    BY <2>1, <2>2, <2>3, NavigateKeeps DEF Run
  <2>4. CASE it.run # "navigate"
    BY <2>1, <2>2, <2>4, StayKeeps DEF Run
  <2> QED BY <2>3, <2>4
<1>5. ASSUME NEW c \in BOOLEAN, LeaveNewResource(c) PROVE HandlerIsCurrent'
  BY <1>5, NavigateKeeps, StayKeeps DEF LeaveNewResource
<1>6. ASSUME NEW l \in Layers, FadeEnds(l) \/ CloseLayer(l) PROVE HandlerIsCurrent'
  BY <1>6, StayKeeps DEF FadeEnds, CloseLayer
<1>7. CASE \/ StartChord \/ ChordExpires \/ TogglePalette \/ OpenPalette \/ ShowSheet
           \/ PaletteLoads \/ Move \/ Toast
  BY <1>7, StayKeeps DEF StartChord, ChordExpires, TogglePalette, OpenPalette, ShowSheet,
     PaletteLoads, Move, Toast
<1>8. ASSUME NEW q \in Scores, Type(q) PROVE HandlerIsCurrent'
  BY <1>8, StayKeeps DEF Type
<1>9. ASSUME NEW i \in 1..Len(toasts),
             PointerEnters(i) \/ PointerLeaves(i) \/ TimerFires(i) \/ Dismiss(i) \/ ToastGoes(i)
      PROVE  HandlerIsCurrent'
  BY <1>9, StayKeeps DEF PointerEnters, PointerLeaves, TimerFires, Dismiss, ToastGoes
<1> QED BY <1>1, <1>2, <1>3, <1>4, <1>5, <1>6, <1>7, <1>8, <1>9 DEF ShellNext, Notices

-----------------------------------------------------------------------------
(* Flattened and sorted sequences                                          *)

\* Induction over the natural numbers, with the set of those for which the claim holds.
LEMMA NatSetInduction ==
  ASSUME NEW P, 0 \in P, \A n \in Nat : n \in P => n + 1 \in P
  PROVE  Nat \subseteq P
<1> DEFINE Bad == Nat \ P
<1>1. ASSUME Bad # {} PROVE FALSE
  <2>1. Bad \subseteq Nat
    OBVIOUS
  <2>2. PICK x \in Bad : \A y \in Bad : ~(<<y, x>> \in OpToRel(<, Nat))
    BY <1>1, <2>1, NatLessThanWellFounded, WFMin, Zenon
  <2>3. \A y \in Bad : ~(y < x)
    BY <2>2, Zenon DEF OpToRel
  <2>4. x \in Nat /\ x \notin P
    BY <2>2, Zenon
  <2>5. x # 0 /\ x - 1 \in Nat
    BY <2>4
  <2>6. x - 1 \in P
    BY <2>3, <2>5
  <2> QED BY <2>4, <2>5, <2>6
<1> QED BY <1>1

\* f satisfies the equation of flatten in FlattenSeq, up to position n.
Flattens(s, f, n) == f = [i \in 1..n |-> IF i = 1 THEN s[i] ELSE f[i - 1] \o s[i]]

\* Such a function exists, for every length.
LEMMA FlattenExists ==
  ASSUME NEW s, NEW n \in Nat
  PROVE  \E f : Flattens(s, f, n)
<1> DEFINE P == {k \in Nat : \E f : Flattens(s, f, k)}
<1>1. 0 \in P
  <2> DEFINE f == [i \in 1..0 |-> s[1]]
  <2>1. f = [i \in 1..0 |-> IF i = 1 THEN s[i] ELSE f[i - 1] \o s[i]]
    OBVIOUS
  <2> HIDE DEF f
  <2> QED BY <2>1 DEF Flattens
<1>2. ASSUME NEW k \in Nat, k \in P PROVE k + 1 \in P
  <2>1. PICK f : Flattens(s, f, k)
    BY <1>2
  <2> DEFINE Item(h, i) == IF i = 1 THEN s[i] ELSE h[i - 1] \o s[i]
             g == [i \in 1..(k + 1) |-> Item(f, i)]
  <2>2. f = [i \in 1..k |-> Item(f, i)]
    BY <2>1 DEF Flattens
  <2>3. \A i \in 1..(k + 1) : i # 1 => i - 1 \in 1..k
    OBVIOUS
  <2>4. ASSUME NEW i \in 1..k PROVE g[i] = f[i]
    <3> HIDE DEF Item
    <3>1. i \in 1..(k + 1)
      OBVIOUS
    <3> QED BY <2>2, <3>1, Zenon
  <2>5. ASSUME NEW i \in 1..(k + 1) PROVE Item(f, i) = Item(g, i)
    <3> HIDE DEF g
    <3> QED BY <2>3, <2>4, Zenon
  <2>6. g = [i \in 1..(k + 1) |-> Item(g, i)]
    <3> HIDE DEF Item
    <3> QED BY <2>5, Zenon
  <2> HIDE DEF g
  <2>7. Flattens(s, g, k + 1)
    BY <2>6 DEF Flattens
  <2> QED BY <2>7
<1> HIDE DEF P
<1>3. n \in P
  BY <1>1, <1>2, NatSetInduction
<1> QED BY <1>3 DEF P

\* A flattened sequence of sequences is one, and begins like the first if that has
\* a first element.
LEMMA FlattenFacts ==
  ASSUME NEW T, NEW s \in Seq(Seq(T))
  PROVE  /\ FlattenSeq(s) \in Seq(T)
         /\ Len(s) > 0 /\ s[1] # <<>> => /\ FlattenSeq(s) # <<>>
                                         /\ FlattenSeq(s)[1] = s[1][1]
<1>1. CASE Len(s) = 0
  BY <1>1 DEF FlattenSeq
<1>2. CASE Len(s) # 0
  <2> DEFINE f == CHOOSE g : Flattens(s, g, Len(s))
  <2>1. Len(s) \in Nat /\ 1 \in 1..Len(s) /\ Len(s) \in 1..Len(s)
    BY <1>2
  <2>2. Flattens(s, f, Len(s))
    BY <2>1, FlattenExists, Zenon
  <2>3. FlattenSeq(s) = f[Len(s)]
    BY <1>2, Zenon DEF FlattenSeq, Flattens
  <2> HIDE DEF f
  <2> DEFINE Fine(i) == /\ f[i] \in Seq(T)
                        /\ s[1] # <<>> => f[i] # <<>> /\ f[i][1] = s[1][1]
             P == {k \in Nat : k + 1 \in 1..Len(s) => Fine(k + 1)}
  <2>4. \A i \in 1..Len(s) : f[i] = IF i = 1 THEN s[i] ELSE f[i - 1] \o s[i]
    BY <2>2 DEF Flattens
  <2>5. 0 \in P
    BY <2>1, <2>4
  <2>6. ASSUME NEW k \in Nat, k \in P PROVE k + 1 \in P
    <3> SUFFICES ASSUME (k + 1) + 1 \in 1..Len(s) PROVE Fine((k + 1) + 1)
      OBVIOUS
    <3>1. k + 1 \in 1..Len(s) /\ Fine(k + 1)
      BY <2>6
    <3> DEFINE i == (k + 1) + 1
    <3>2. f[i] = f[k + 1] \o s[i]
      <4>1. i \in 1..Len(s) /\ i # 1 /\ i - 1 = k + 1
        OBVIOUS
      <4> HIDE DEF i
      <4>2. f[i] = f[i - 1] \o s[i]
        BY <2>4, <4>1, Zenon
      <4> QED BY <4>1, <4>2, Zenon
    <3>3. s[i] \in Seq(T)
      OBVIOUS
    <3>4. ASSUME NEW a \in Seq(T), NEW b \in Seq(T)
          PROVE  a \o b \in Seq(T) /\ (a # <<>> => a \o b # <<>> /\ (a \o b)[1] = a[1])
      OBVIOUS
    <3> HIDE DEF i
    <3>5. Fine(i)
      BY <3>1, <3>2, <3>3, <3>4, Zenon
    <3> QED BY <3>5 DEF i
  <2> HIDE DEF P
  <2>7. Nat \subseteq P
    BY <2>5, <2>6, NatSetInduction
  <2>8. Len(s) - 1 \in P
    BY <2>1, <2>7
  <2>9. Fine(Len(s))
    BY <2>1, <2>8 DEF P
  <2> QED BY <2>3, <2>9
<1> QED BY <1>1, <1>2

\* Sorted lists the positions in S, each once, and none after one that is worse.
LEMMA SortedFacts ==
  ASSUME NEW n \in Nat, NEW S \in SUBSET (1..n), NEW ranks, \A i \in S : ranks[i] \in Nat
  PROVE  /\ Sorted(S, ranks) \in Seq(S) /\ Len(Sorted(S, ranks)) = Cardinality(S)
         /\ S # {} => /\ Sorted(S, ranks) # <<>>
                      /\ \A j \in S : ranks[j] <= ranks[Sorted(S, ranks)[1]]
<1> DEFINE before(i) == {j \in S : ranks[j] > ranks[i] \/ (ranks[j] = ranks[i] /\ j < i)}
           m == Cardinality(S)
           pos == [i \in S |-> Cardinality(before(i))]
<1>1. IsFiniteSet(S) /\ m \in Nat
  <2>1. IsFiniteSet(1..n)
    BY FS_Interval
  <2> QED BY <2>1, FS_Subset, FS_CardinalityType
<1>2. \A i \in S : i \in Nat /\ ranks[i] \in Nat
  OBVIOUS
<1>3. ASSUME NEW i \in S
      PROVE  IsFiniteSet(before(i)) /\ Cardinality(before(i)) \in 0..(m - 1)
  <2>1. before(i) \in SUBSET S /\ i \notin before(i)
    BY <1>2
  <2> HIDE DEF before
  <2>2. IsFiniteSet(before(i)) /\ Cardinality(before(i)) <= m /\ Cardinality(before(i)) # m
    BY <1>1, <2>1, FS_Subset
  <2>3. Cardinality(before(i)) \in Nat
    BY <2>2, FS_CardinalityType
  <2> QED BY <1>1, <2>2, <2>3
<1>4. ASSUME NEW i \in S, NEW j \in S, j \in before(i)
      PROVE  Cardinality(before(j)) # Cardinality(before(i))
  <2>1. ranks[j] > ranks[i] \/ (ranks[j] = ranks[i] /\ j < i)
    BY <1>4
  <2>2. \A k \in before(j) : k \in before(i) /\ k # j
    BY <1>2, <2>1
  <2> HIDE DEF before
  <2>3. before(j) \in SUBSET before(i) /\ j \notin before(j)
    BY <2>2
  <2> QED BY <1>3, <1>4, <2>3, FS_Subset
<1>5. \A i \in S, j \in S : i # j => i \in before(j) \/ j \in before(i)
  BY <1>2
<1> HIDE DEF before
<1>6. pos \in Injection(S, 0..(m - 1))
  <2>1. pos \in [S -> 0..(m - 1)]
    BY <1>3
  <2>2. \A i \in S, j \in S : pos[i] = pos[j] => i = j
    BY <1>4, <1>5
  <2> HIDE DEF pos
  <2> QED BY <2>1, <2>2, Zenon DEF Injection, IsInjective
<1>7. IsFiniteSet(0..(m - 1)) /\ Cardinality(0..(m - 1)) = m
  BY <1>1, FS_Interval
<1>8. pos \in Surjection(S, 0..(m - 1))
  BY <1>6, <1>7, FS_Injection
<1>9. \A k \in 1..m : \E i \in S : Cardinality(before(i)) = k - 1
  <2> SUFFICES ASSUME NEW k \in 1..m PROVE \E i \in S : Cardinality(before(i)) = k - 1
    OBVIOUS
  <2>1. k - 1 \in 0..(m - 1)
    BY <1>1
  <2>2. PICK i \in S : pos[i] = k - 1
    BY <1>8, <2>1 DEF Surjection
  <2> QED BY <2>2
<1> DEFINE o == [k \in 1..m |-> CHOOSE i \in S : Cardinality(before(i)) = k - 1]
<1>10. Sorted(S, ranks) = o
  BY DEF Sorted, before
<1>11. \A k \in 1..m : o[k] \in S /\ Cardinality(before(o[k])) = k - 1
  BY <1>9
<1> HIDE DEF o
<1>12. o \in Seq(S) /\ Len(o) = m
  BY <1>1, <1>11 DEF o
<1>13. ASSUME S # {} PROVE o # <<>> /\ \A j \in S : ranks[j] <= ranks[o[1]]
  <2>1. m # 0 /\ 1 \in 1..m
    BY <1>1, <1>13, FS_EmptySet
  <2>2. o[1] \in S /\ Cardinality(before(o[1])) = 0
    BY <1>11, <2>1
  <2>3. before(o[1]) = {}
    BY <1>3, <2>2, FS_EmptySet
  <2>4. o # <<>>
    BY <1>1, <2>1 DEF o
  <2>5. ASSUME NEW j \in S PROVE ranks[j] <= ranks[o[1]]
    <3>1. ~(ranks[j] > ranks[o[1]])
      BY <2>3 DEF before
    <3>2. ranks[j] \in Nat /\ ranks[o[1]] \in Nat
      BY <1>2, <2>2
    <3> QED BY <3>1, <3>2
  <2> QED BY <2>4, <2>5
<1> QED BY <1>10, <1>12, <1>13

-----------------------------------------------------------------------------
(* The palette                                                             *)

\* Links to pages are entries.
LEMMA LinksTyped ==
  ASSUME NEW s \in {NavItems, EnvPages}, NEW e \in Places, NEW g \in Groups, NEW w \in Whens, NEW l
  PROVE  Links(s, e, g, w, l) \in Seq(Entries)
<1>1. s \in Seq(Range(s)) /\ Len(s) \in Nat /\ DOMAIN s = 1..Len(s)
  BY ShellAssumption
<1>2. ASSUME NEW i \in DOMAIN s
      PROVE  Entry(g, s[i].to, e, s[i].min, IF s[i].to = l THEN "never" ELSE w, "navigate") \in Entries
  <2>1. s[i] \in Range(NavItems) \cup Range(EnvPages)
    BY DEF Range
  <2>2. s[i].min \in Roles /\ s[i].to \in Labels
    BY <2>1, ShellAssumption DEF Labels
  <2> QED BY <2>2 DEF Entry, Entries, Whens
<1> QED BY <1>1, <1>2 DEF Links

\* The entries of the palette.
LEMMA ItemsTyped ==
  ASSUME PaletteTyped
  PROVE  paletteItems \in Seq(Entries)
<1> DEFINE here == page.env
           one == Entry("Actions", "new", NoEnv, "owner", "both", "newEnvironment")
           two == Entry("Actions", "shortcuts", NoEnv, "viewer", "both", "sheet")
           new(e) == Entry("Actions", "new", e, "editor", IF e = here THEN "both" ELSE "search", "newResource")
           over(e) == Entry("Environments", "overview", e, "viewer", "both", "navigate")
           res(e) == Entry("Resources", "resource", e, "viewer", "search", "navigate")
           news == [i \in DOMAIN known |-> <<new(known[i])>>]
           pages == [i \in DOMAIN known |->
                       <<over(known[i])>> \o Links(EnvPages, known[i], "Environments", "search", "overview")]
           resources == [i \in DOMAIN known |-> <<res(known[i])>>]
           local == IF here = NoEnv THEN <<>> ELSE Links(EnvPages, here, "Go to", "idle", "")
           nav == Links(NavItems, NoEnv, "Go to", "both", "")
<1>1. paletteItems = <<one>> \o FlattenSeq(news) \o <<two>> \o nav \o local \o FlattenSeq(pages)
                     \o FlattenSeq(resources)
  BY Zenon DEF paletteItems
<1>2. one \in Entries /\ two \in Entries
  BY DEF Entry, Entries, Groups, Labels, Places, Roles, indexOf, Whens
<1>3. ASSUME NEW e \in Envs PROVE new(e) \in Entries /\ over(e) \in Entries /\ res(e) \in Entries
  BY DEF Entry, Entries, Groups, Labels, Places, Roles, indexOf, Whens
<1>4. known \in Seq(Envs) /\ Len(known) \in Nat /\ DOMAIN known = 1..Len(known)
  <2>1. known = <<>> \/ known = EnvList
    BY DEF PaletteTyped
  <2>2. EnvList \in Seq(Envs)
    BY ShellAssumption
  <2>3. <<>> \in Seq(Envs)
    OBVIOUS
  <2>4. known \in Seq(Envs)
    BY <2>1, <2>2, <2>3, Zenon
  <2> QED BY <2>4
<1> HIDE DEF one, two, new, over, res
<1>5. \A i \in DOMAIN known : known[i] \in Envs /\ known[i] \in Places
  BY <1>4 DEF Places
<1>6. news \in Seq(Seq(Entries)) /\ resources \in Seq(Seq(Entries))
  <2>1. \A i \in DOMAIN known : <<new(known[i])>> \in Seq(Entries) /\ <<res(known[i])>> \in Seq(Entries)
    BY <1>3, <1>5
  <2> QED BY <1>4, <2>1
<1>7. pages \in Seq(Seq(Entries))
  <2>1. ASSUME NEW i \in DOMAIN known
        PROVE  <<over(known[i])>> \o Links(EnvPages, known[i], "Environments", "search", "overview")
                 \in Seq(Entries)
    <3>1. <<over(known[i])>> \in Seq(Entries)
      BY <1>3, <1>5
    <3>2. Links(EnvPages, known[i], "Environments", "search", "overview") \in Seq(Entries)
      BY <1>5, LinksTyped DEF Groups, Whens
    <3> QED BY <3>1, <3>2
  <2> QED BY <1>4, <2>1
<1>8. nav \in Seq(Entries) /\ local \in Seq(Entries)
  <2>1. /\ here \in Places /\ NoEnv \in Places
        /\ "Go to" \in Groups /\ "idle" \in Whens /\ "both" \in Whens
    BY DEF Places, Groups, Whens, PaletteTyped
  <2>2. nav \in Seq(Entries) /\ Links(EnvPages, here, "Go to", "idle", "") \in Seq(Entries)
    BY <2>1, LinksTyped, Zenon
  <2>3. <<>> \in Seq(Entries)
    OBVIOUS
  <2> QED BY <2>2, <2>3, Zenon
<1>9. <<one>> \in Seq(Entries) /\ <<two>> \in Seq(Entries)
  BY <1>2
<1> HIDE DEF news, pages, resources, local, nav
<1>10. /\ FlattenSeq(news) \in Seq(Entries) /\ FlattenSeq(pages) \in Seq(Entries)
       /\ FlattenSeq(resources) \in Seq(Entries)
  BY <1>6, <1>7, FlattenFacts
<1> QED BY <1>1, <1>8, <1>9, <1>10

\* Every entry has a score.
LEMMA RankTyped ==
  ASSUME PaletteTyped, NEW it \in Entries
  PROVE  rank(it) \in Nat
<1>1. CASE search.query = NoQuery
  BY <1>1 DEF rank
<1>2. CASE search.query # NoQuery
  <2>1. search.query \in [Labels \X Places -> Nat]
    BY <1>2, ShellAssumption DEF PaletteTyped, Places
  <2>2. <<it.label, it.env>> \in Labels \X Places
    BY DEF Entries
  <2> QED BY <1>2, <2>1, <2>2 DEF rank
<1> QED BY <1>1, <1>2

\* Shortening a sorted group keeps its best entry.
LEMMA ShortenedFacts ==
  ASSUME NEW n \in Nat, NEW S \in SUBSET (1..n), NEW ranks, \A i \in S : ranks[i] \in Nat
  PROVE  /\ Shortened(S, ranks) \in Seq(S)
         /\ S # {} => /\ Shortened(S, ranks) # <<>>
                      /\ \A j \in S : ranks[j] <= ranks[Shortened(S, ranks)[1]]
<1> DEFINE s == Sorted(S, ranks)
           k == IF Len(s) < MaxPerGroup THEN Len(s) ELSE MaxPerGroup
<1>1. s \in Seq(S) /\ (S # {} => s # <<>> /\ \A j \in S : ranks[j] <= ranks[s[1]])
  BY SortedFacts
<1>2. Shortened(S, ranks) = SubSeq(s, 1, k)
  BY DEF Shortened
<1> HIDE DEF s
<1>3. k \in 0..Len(s) /\ (s # <<>> => k >= 1)
  BY <1>1, ShellAssumption
<1> HIDE DEF k
<1>4. SubSeq(s, 1, k) \in Seq(S) /\ Len(SubSeq(s, 1, k)) = k
  BY <1>1, <1>3
<1>5. ASSUME s # <<>> PROVE SubSeq(s, 1, k) # <<>> /\ SubSeq(s, 1, k)[1] = s[1]
  BY <1>1, <1>3, <1>4, <1>5
<1> QED BY <1>1, <1>2, <1>4, <1>5

\* rankItems lists entries, and one with the best score first.
LEMMA BestFirst ==
  ASSUME PaletteTyped
  PROVE  /\ rankItems \in Seq(Entries)
         /\ \A i \in Matching(paletteItems) : rank(paletteItems[i]) <= rank(rankItems[1])
<1> DEFINE items == paletteItems
           n == Len(items)
           matching == Matching(items)
           ranks == [i \in DOMAIN items |-> rank(items[i])]
           in(g) == {i \in matching : items[i].group = g}
           of(g) == Shortened(in(g), ranks)
           groups == <<of("Actions"), of("Go to"), of("Environments"), of("Resources")>>
           best(g) == IF groups[g] = <<>> THEN 0 ELSE ranks[groups[g][1]]
           bests == <<best(1), best(2), best(3), best(4)>>
           order == Sorted(1..4, bests)
           chunks == [k \in 1..4 |-> groups[order[k]]]
           flat == FlattenSeq(chunks)
<1>1. rankItems = [k \in DOMAIN flat |-> items[flat[k]]]
  BY Zenon DEF rankItems
<1>2. items \in Seq(Entries)
  BY ItemsTyped
<1> HIDE DEF items
<1>3. n \in Nat /\ DOMAIN items = 1..n /\ \A i \in 1..n : items[i] \in Entries
  BY <1>2
<1>4. matching \in SUBSET (1..n) /\ \A i \in matching : rank(items[i]) > 0
  BY <1>3 DEF Matching
<1>5. \A i \in 1..n : ranks[i] = rank(items[i]) /\ ranks[i] \in Nat
  BY <1>3, RankTyped
<1> HIDE DEF n, matching, ranks
<1>6. ASSUME NEW g
      PROVE  /\ of(g) \in Seq(matching)
             /\ \A i \in in(g) : of(g) # <<>> /\ ranks[i] <= ranks[of(g)[1]]
  <2>1. in(g) \in SUBSET (1..n) /\ (\A i \in in(g) : ranks[i] \in Nat) /\ in(g) \subseteq matching
    BY <1>4, <1>5
  <2> HIDE DEF in
  <2>2. of(g) \in Seq(in(g))
    BY <1>3, <2>1, ShortenedFacts
  <2>3. in(g) # {} => of(g) # <<>> /\ \A j \in in(g) : ranks[j] <= ranks[of(g)[1]]
    BY <1>3, <2>1, ShortenedFacts
  <2> HIDE DEF of
  <2>4. of(g) \in Seq(matching)
    BY <2>1, <2>2
  <2> QED BY <2>3, <2>4
<1> HIDE DEF of
<1>7. /\ groups[1] = of("Actions") /\ groups[2] = of("Go to")
      /\ groups[3] = of("Environments") /\ groups[4] = of("Resources")
  OBVIOUS
<1> HIDE DEF groups
<1>8. \A g \in 1..4 : g = 1 \/ g = 2 \/ g = 3 \/ g = 4
  OBVIOUS
<1>9. ASSUME NEW g \in 1..4 PROVE groups[g] \in Seq(matching)
  BY <1>6, <1>7, <1>8, Zenon
<1>10. ASSUME NEW i \in matching
      PROVE  \E g \in 1..4 : groups[g] # <<>> /\ ranks[i] <= ranks[groups[g][1]]
  <2>1. items[i].group \in Groups /\ i \in in(items[i].group)
    BY <1>3, <1>4 DEF Entries
  <2>2. of(items[i].group) # <<>> /\ ranks[i] <= ranks[of(items[i].group)[1]]
    BY <1>6, <2>1
  <2>3. \E g \in 1..4 : groups[g] = of(items[i].group)
    <3>1. 1 \in 1..4 /\ 2 \in 1..4 /\ 3 \in 1..4 /\ 4 \in 1..4
      OBVIOUS
    <3> QED BY <1>7, <2>1, <3>1, Zenon DEF Groups
  <2> QED BY <2>2, <2>3, Zenon
<1>11. \A g \in 1..4 : best(g) \in Nat
  <2> SUFFICES ASSUME NEW g \in 1..4, groups[g] # <<>> PROVE ranks[groups[g][1]] \in Nat
    OBVIOUS
  <2>1. groups[g][1] \in matching
    BY <1>9
  <2> QED BY <1>4, <1>5, <2>1
<1> HIDE DEF best
<1>12. \A g \in 1..4 : bests[g] = best(g)
  OBVIOUS
<1> HIDE DEF bests
<1>13. /\ order \in Seq(1..4) /\ Len(order) = 4
       /\ \A g \in 1..4 : best(g) <= best(order[1])
  <2>1. 1..4 \in SUBSET (1..4) /\ 1..4 # {} /\ \A g \in 1..4 : bests[g] \in Nat
    BY <1>11, <1>12
  <2>2. Cardinality(1..4) = 4
    <3>1. 1 \in Int /\ 4 \in Int
      OBVIOUS
    <3>2. Cardinality(1..4) = IF 1 > 4 THEN 0 ELSE 4 - 1 + 1
      BY <3>1, FS_Interval, Zenon
    <3> QED BY <3>2
  <2>3. /\ order \in Seq(1..4) /\ Len(order) = Cardinality(1..4)
        /\ order # <<>> /\ \A g \in 1..4 : bests[g] <= bests[order[1]]
    BY <2>1, SortedFacts
  <2> HIDE DEF order
  <2>4. order[1] \in 1..4
    BY <2>2, <2>3
  <2> QED BY <1>12, <2>2, <2>3, <2>4
<1> HIDE DEF order
<1>14. \A k \in 1..4 : order[k] \in 1..4
  <2>1. ASSUME NEW T, NEW s \in Seq(T) PROVE \A k \in 1..Len(s) : s[k] \in T
    OBVIOUS
  <2> QED BY <1>13, <2>1, Zenon
<1>15. chunks \in Seq(Seq(matching)) /\ Len(chunks) = 4 /\ chunks[1] = groups[order[1]]
  BY <1>9, <1>14
<1> HIDE DEF chunks
<1>16. flat \in Seq(matching) /\ (chunks[1] # <<>> => flat # <<>> /\ flat[1] = chunks[1][1])
  <2>1. Len(chunks) > 0
    BY <1>15
  <2> QED BY <1>15, <2>1, FlattenFacts, Zenon
<1> HIDE DEF flat
<1>17. rankItems \in Seq(Entries)
  <2>1. \A k \in DOMAIN flat : items[flat[k]] \in Entries
    <3>1. \A k \in DOMAIN flat : flat[k] \in matching
      BY <1>16
    <3> QED BY <1>3, <1>4, <3>1
  <2> QED BY <1>1, <1>16, <2>1
<1>18. ASSUME NEW i \in matching PROVE rank(items[i]) <= rank(rankItems[1])
  <2>1. PICK g \in 1..4 : groups[g] # <<>> /\ ranks[i] <= ranks[groups[g][1]]
    BY <1>10
  <2>2. best(g) = ranks[groups[g][1]]
    BY <2>1 DEF best
  <2>3. ranks[i] = rank(items[i]) /\ ranks[i] \in Nat /\ ranks[i] > 0
    BY <1>4, <1>5
  <2>4. best(g) \in Nat /\ best(order[1]) \in Nat /\ best(g) <= best(order[1])
    BY <1>11, <1>13, <1>14
  <2>5. ranks[i] <= best(order[1]) /\ best(order[1]) # 0
    BY <2>1, <2>2, <2>3, <2>4
  <2>6. groups[order[1]] # <<>> /\ best(order[1]) = ranks[groups[order[1]][1]]
    BY <2>5 DEF best
  <2>7. flat # <<>> /\ flat[1] = groups[order[1]][1]
    BY <1>15, <1>16, <2>6
  <2>8. flat[1] \in matching /\ 1 \in DOMAIN flat
    BY <1>16, <2>7
  <2>9. rankItems[1] = items[flat[1]]
    BY <1>1, <2>8
  <2>10. rank(rankItems[1]) = ranks[flat[1]]
    BY <1>4, <1>5, <2>8, <2>9
  <2> QED BY <2>3, <2>5, <2>6, <2>7, <2>10
<1> QED BY <1>17, <1>18 DEF matching, items

\* Only the palette's own steps, and links, change what it lists, where and for what.
LEMMA PaletteStaysTyped ==
  ASSUME PaletteTyped, ShellNext
  PROVE  PaletteTyped'
<1>1. NoEnv \in Places /\ Start \in [query : Scores \cup {NoQuery}, active : Nat]
  BY DEF Places, Start
<1>2. \A p \in ShellPages : p.env \in Places
  BY DEF ShellPages, Places
<1>3. ASSUME NEW p \in ShellPages, EndChord(p) \/ FollowLink(p) \/ FollowTab(p) \/ OpenRow(p)
      PROVE  PaletteTyped'
  <2>1. (page' = p \/ page' = page) /\ UNCHANGED palette
    BY <1>3 DEF EndChord, FollowLink, FollowTab, OpenRow, navigate
  <2> QED BY <1>2, <2>1 DEF PaletteTyped, palette
<1>4. ASSUME NEW r \in Roles, RoleChanges(r) \/ SignIn(r) PROVE PaletteTyped'
  BY <1>4 DEF RoleChanges, SignIn, PaletteTyped, palette
<1>5. CASE ShellSignOut
  BY <1>1, <1>5 DEF ShellSignOut, ShellHome, PaletteTyped
<1>6. CASE Choose
  <2>1. search.active \in Nat /\ rankItems \in Seq(Entries) /\ rankItems # <<>>
    BY <1>6, BestFirst DEF Choose, PaletteTyped
  <2>2. Current(Len(rankItems)) + 1 \in 1..Len(rankItems)
    BY <2>1 DEF Current
  <2>3. PICK it \in Entries : Run(it)
    BY <1>6, <2>1, <2>2 DEF Choose
  <2>4. it.env \in Places
    BY DEF Entries
  <2>5. page'.env \in {page.env, it.env} /\ newIn' \in {newIn, it.env}
    BY <2>3 DEF Run, navigate
  <2>6. search' = Start /\ known' = known
    BY <2>3 DEF Run
  <2> QED BY <1>1, <2>4, <2>5, <2>6 DEF PaletteTyped
<1>7. CASE Move
  <2>1. search.active \in Nat /\ rankItems \in Seq(Entries) /\ Len(rankItems) > 0
    BY <1>7, BestFirst DEF Move, PaletteTyped
  <2>2. PICK d \in {1, -1} :
          search' = [search EXCEPT !.active = (Current(Len(rankItems)) + d + Len(rankItems)) % Len(rankItems)]
    BY <1>7 DEF Move
  <2>3. Current(Len(rankItems)) \in 0..(Len(rankItems) - 1) /\ Len(rankItems) \in Nat
    BY <2>1 DEF Current
  <2>4. (Current(Len(rankItems)) + d + Len(rankItems)) % Len(rankItems) \in Nat
    BY <2>1, <2>3
  <2>5. UNCHANGED <<page, newIn, known>>
    BY <1>7 DEF Move
  <2> QED BY <2>2, <2>4, <2>5 DEF PaletteTyped
<1>8. CASE TogglePalette \/ OpenPalette
  BY <1>1, <1>8 DEF TogglePalette, OpenPalette, PaletteTyped
<1>9. ASSUME NEW l \in Layers, FadeEnds(l) \/ CloseLayer(l) PROVE PaletteTyped'
  BY <1>1, <1>9 DEF FadeEnds, CloseLayer, PaletteTyped
<1>10. ASSUME NEW c \in BOOLEAN, LeaveNewResource(c) PROVE PaletteTyped'
  BY <1>1, <1>10 DEF LeaveNewResource, navigate, PaletteTyped
<1>11. ASSUME NEW q \in Scores, Type(q) PROVE PaletteTyped'
  BY <1>11 DEF Type, PaletteTyped
<1>12. CASE PaletteLoads
  BY <1>12 DEF PaletteLoads, PaletteTyped
<1>13. CASE StartChord \/ ChordExpires \/ ShowSheet \/ Toast
  BY <1>13 DEF StartChord, ChordExpires, ShowSheet, Toast, palette, PaletteTyped
<1>14. ASSUME NEW i \in 1..Len(toasts),
              PointerEnters(i) \/ PointerLeaves(i) \/ TimerFires(i) \/ Dismiss(i) \/ ToastGoes(i)
       PROVE  PaletteTyped'
  BY <1>14 DEF PointerEnters, PointerLeaves, TimerFires, Dismiss, ToastGoes, palette, PaletteTyped
<1> QED BY <1>3, <1>4, <1>5, <1>6, <1>7, <1>8, <1>9, <1>10, <1>11, <1>12, <1>13, <1>14
        DEF ShellNext, Notices

-----------------------------------------------------------------------------
(* What the shell shows and does                                           *)

LEMMA ShellCorrect == ShellSpec => []ShellInv
<1>1. ShellInv /\ [ShellNext]_shellVars => ShellInv'
  <2> SUFFICES ASSUME ShellInv, [ShellNext]_shellVars PROVE ShellInv'
    OBVIOUS
  <2>1. CASE ShellNext
    BY <2>1, LayersStayFilled, HandlerStaysCurrent, PaletteStaysTyped DEF ShellInv
  <2>2. CASE UNCHANGED shellVars
    BY <2>2, StayKeeps DEF shellVars, palette, ShellInv, PaletteTyped
  <2> QED BY <2>1, <2>2
<1> QED BY <1>1, InitShellInv, PTL DEF ShellSpec

\* However dialogs are closed and opened again within the time of their fade, an open
\* one shows its content.
THEOREM ShellOpenShowsContent == ShellSpec => []OpenShowsContent
<1>1. ShellInv => OpenShowsContent
  BY DEF ShellInv, AllFilled, Filled, OpenShowsContent
<1> QED BY <1>1, ShellCorrect, PTL

\* For any entries, any scores and whatever loads while one types, Enter picks an entry
\* with the best score until the selection is moved.
THEOREM ShellEnterPicksBest == ShellSpec => []EnterPicksBest
<1>1. ShellInv => EnterPicksBest
  BY BestFirst DEF ShellInv, EnterPicksBest
<1> QED BY <1>1, ShellCorrect, PTL

\* Only the second key of a chord ends it on another page.
LEMMA ChordEnds ==
  ASSUME ShellNext, chord, ~chord', page' # page, on'
  PROVE  \E p \in chordTargets : page' = p
<1>1. ASSUME NEW p \in ShellPages, EndChord(p) PROVE p \in chordTargets /\ page' = p
  BY <1>1 DEF EndChord, navigate
<1>2. \A p \in ShellPages : ~FollowLink(p) /\ ~FollowTab(p) /\ ~OpenRow(p)
  BY DEF FollowLink, FollowTab, OpenRow
<1>3. \A r \in Roles : ~RoleChanges(r) /\ ~SignIn(r)
  BY DEF RoleChanges, SignIn
<1>4. \A l \in Layers : ~FadeEnds(l) /\ ~CloseLayer(l)
  BY DEF FadeEnds, CloseLayer
<1>5. /\ ~StartChord /\ ~ChordExpires /\ ~ShellSignOut /\ ~TogglePalette /\ ~OpenPalette
      /\ ~ShowSheet /\ ~PaletteLoads /\ ~Move /\ ~Toast
  BY DEF StartChord, ChordExpires, ShellSignOut, TogglePalette, OpenPalette, ShowSheet, PaletteLoads,
         Move, Toast
<1>6. ~Choose
  BY DEF Choose, Run
<1>7. (\A c \in BOOLEAN : ~LeaveNewResource(c)) /\ \A q \in Scores : ~Type(q)
  BY DEF LeaveNewResource, Type
<1>8. \A i \in 1..Len(toasts) : /\ ~PointerEnters(i) /\ ~PointerLeaves(i) /\ ~TimerFires(i)
                                /\ ~Dismiss(i) /\ ~ToastGoes(i)
  BY DEF PointerEnters, PointerLeaves, TimerFires, Dismiss, ToastGoes
<1> QED BY <1>1, <1>2, <1>3, <1>4, <1>5, <1>6, <1>7, <1>8 DEF ShellNext, Notices

\* The second key of a chord leads to a page of the environment on the screen that the
\* current role may see, although the handler was registered by an earlier render.
THEOREM ShellChordsFollowPage == ShellSpec => ChordsFollowPage
<1> DEFINE Follow ==
       on /\ chord /\ ~chord' /\ page' # page /\ on' =>
         IF page'.env = NoEnv THEN \E p \in Range(NavItems) : p.to = page'.to /\ can(role, p.min)
         ELSE page'.env = page.env /\ \E p \in Range(EnvPages) : p.to = page'.to /\ can(role, p.min)
<1>1. ASSUME ShellInv, ShellNext PROVE Follow
  <2> SUFFICES ASSUME chord, ~chord', page' # page, on'
               PROVE  IF page'.env = NoEnv
                      THEN \E p \in Range(NavItems) : p.to = page'.to /\ can(role, p.min)
                      ELSE /\ page'.env = page.env
                           /\ \E p \in Range(EnvPages) : p.to = page'.to /\ can(role, p.min)
    OBVIOUS
  <2>1. page' \in chordTargets
    BY <1>1, ChordEnds
  <2>2. bound.role = role /\ bound.env = page.env
    BY <1>1 DEF ShellInv, HandlerIsCurrent
  <2> QED BY <2>1, <2>2 DEF chordTargets
<1>2. ShellInv /\ [ShellNext]_shellVars => [Follow]_shellVars
  BY <1>1
<1> QED BY <1>2, ShellCorrect, PTL DEF ShellSpec, ChordsFollowPage

=============================================================================
