--------------------------- MODULE StudioSession ----------------------------
(***************************************************************************)
(* The session of one browser tab of Studio (studio/src): the root shell,  *)
(* the sign-in page, the form that replaces a temporary password, sign-out *)
(* and the handler of 401 answers, over the TanStack Query cache that they *)
(* share.                                                                  *)
(*                                                                         *)
(* Two queries stand for all: "me", which every screen observes, and       *)
(* "list", the environments that the app shell loads for every page.  The  *)
(* data of a query is the user in whose session the server produced it.    *)
(* The router updates the location at once and the matched route later,    *)
(* when the route's chunk has loaded: loc and matched.  No link leads to   *)
(* the sign-in page, so the user reaches it only by the code below.        *)
(***************************************************************************)
EXTENDS Naturals

CONSTANTS
  Users, NoUser,
  Pages,          \* locations inside the app shell
  Home,           \* "/"
  Login,          \* "/login"
  NoPage,         \* no redirect parameter
  Invited,        \* users that still have a temporary password at the start
  MaxElsewhere    \* bound: changes of the session made outside this tab

ASSUME SessionAssumption ==
  /\ NoUser \notin Users
  /\ Users \cap {"unauthorized", "change", "lost", "idle", "sent"} = {}
  /\ Home \in Pages
  /\ Login \notin Pages
  /\ NoPage \notin Pages \cup {Login}
  /\ Invited \subseteq Users
  /\ MaxElsewhere \in Nat

VARIABLES
  session,    \* server: the user of the cookie that the browser holds
  temporary,  \* server: users whose password is temporary
  elsewhere,  \* changes of the session outside this tab so far
  loc,        \* router.state.location
  matched,    \* the route that Outlet renders
  redirect,   \* search parameter of the latest visit to the sign-in page
  cache,      \* the two queries
  post,       \* the form whose request is under way, and what became of it
  foreign,    \* history: another tab changed the session under cached data
  changed     \* history: the password was set and "me" was read after it

vars == <<session, temporary, elsewhere, loc, matched, redirect, cache, post, foreign, changed>>

Queries == {"me", "list"}
\* Answers of the server; a user stands for a 200 made in the user's session.
Refusals == {"unauthorized", "change", "lost"}

\* A query without data, error or request.
Unfetched == [data |-> NoUser, error |-> "none", req |-> "idle"]

\* A query of the cache, and the form whose request is under way.
Query == [data : Users \cup {NoUser}, error : Refusals \cup {"none"},
          req : Users \cup Refusals \cup {"idle", "sent"}]
Post == [form : {"none", "login", "password", "signout"}, as : Users \cup {NoUser},
         answer : {"none", "ok", "refused", "unauthorized", "lost"}]

NoPost == [form |-> "none", as |-> NoUser, answer |-> "none"]

TypeOK ==
  /\ session \in Users \cup {NoUser}
  /\ temporary \subseteq Users
  /\ elsewhere \in 0..MaxElsewhere
  /\ loc \in Pages \cup {Login}
  /\ matched \in Pages \cup {Login}
  /\ redirect \in Pages \cup {Login, NoPage}
  /\ cache \in [Queries -> Query]
  /\ post \in Post
  /\ foreign \in BOOLEAN
  /\ changed \in BOOLEAN

Init ==
  /\ session \in Users \cup {NoUser}
  /\ temporary = Invited
  /\ elsewhere = 0
  /\ loc \in Pages \cup {Login}
  /\ matched = loc
  /\ redirect = NoPage
  /\ cache = [q \in Queries |-> Unfetched]
  /\ post = NoPost
  /\ foreign = FALSE
  /\ changed = FALSE

-----------------------------------------------------------------------------
(* Screens and the cache                                                   *)

\* RootShell: what it renders at location l with "me" in state m.
Screen(l, m) ==
  IF l = Login THEN "outlet"
  ELSE IF m.error = "unauthorized" \/ (m.data = NoUser /\ m.error = "none") THEN "spinner"
  ELSE IF m.error = "change" THEN "sheet"
  ELSE IF m.error # "none" THEN "retry"
  ELSE "shell"

Shown == Screen(loc, cache["me"])

\* The shell unmounts with its query: TanStack Query then aborts the request,
\* whose signal the generated options pass to fetch.
Rendered(l, c) ==
  IF Screen(l, c["me"]) = "shell" THEN c
  ELSE [c EXCEPT !["list"].req = "idle"]

\* Mutated form of Clear: only the query of the current user is removed.
ClearMe == [cache EXCEPT !["me"] = Unfetched]

\* qc.clear(): every query goes, its request is aborted, and the mounted
\* observers start anew with the next render.
Clear == [q \in Queries |-> Unfetched]

\* What the server answers to a read: auth-all guards every route.
Answer ==
  IF session = NoUser THEN "unauthorized"
  ELSE IF session \in temporary THEN "change"
  ELSE session

Mounted(q) == q = "me" \/ Shown = "shell"

\* useMe, useQuery: a mounted query without data or error is fetched.
Fetch(q) ==
  /\ Mounted(q)
  /\ cache[q] = Unfetched
  /\ cache' = [cache EXCEPT ![q].req = "sent"]
  /\ UNCHANGED <<session, temporary, elsewhere, loc, matched, redirect, post, foreign, changed>>

\* The window gets the focus, a page mounts, or the user presses Retry: what is
\* stale or failed is read again.
Refetch(q) ==
  /\ Mounted(q)
  /\ cache[q].req = "idle"
  /\ cache[q] # Unfetched
  /\ cache' = [cache EXCEPT ![q].req = "sent"]
  /\ UNCHANGED <<session, temporary, elsewhere, loc, matched, redirect, post, foreign, changed>>

\* The server answers the read, or the network or the server fails it.  A
\* failure that TanStack Query retries is a request still under way: the last
\* try is the one that counts.
ServeRead(q) ==
  /\ cache[q].req = "sent"
  /\ \E a \in {Answer, "lost"} : cache' = [cache EXCEPT ![q].req = a]
  /\ UNCHANGED <<session, temporary, elsewhere, loc, matched, redirect, post, foreign, changed>>

\* request: an answer becomes the data or the error of its query.  Data stays
\* when a later read fails.  Nobody tells the errors of the list apart.
Settled(q) ==
  IF cache[q].req \in Users THEN [data |-> cache[q].req, error |-> "none", req |-> "idle"]
  ELSE [cache[q] EXCEPT !.error = IF q = "list" THEN "lost" ELSE cache[q].req, !.req = "idle"]

\* Mutated form of OnUnauthorized: the sign-in page is left for itself.
OnUnauthorizedAnywhere(c) ==
  /\ loc' = Login
  /\ redirect' = loc
  /\ cache' = Clear
  /\ foreign' = FALSE
  /\ changed' = FALSE

\* The response interceptor and RootShell's callback on a 401; c is the cache
\* when the callback returns early.
OnUnauthorized(c) ==
  IF loc = Login
  THEN /\ cache' = c
       /\ UNCHANGED <<loc, redirect, foreign, changed>>
  ELSE /\ loc' = Login
       /\ redirect' = loc
       /\ cache' = Clear
       /\ foreign' = FALSE
       /\ changed' = FALSE

\* The answer to a read reaches the tab.
Read(q) ==
  /\ cache[q].req \notin {"idle", "sent"}
  /\ IF cache[q].req = "unauthorized"
     THEN OnUnauthorized([cache EXCEPT ![q] = Settled(q)])
     ELSE /\ cache' = Rendered(loc, [cache EXCEPT ![q] = Settled(q)])
          /\ UNCHANGED <<loc, redirect, foreign, changed>>
  /\ UNCHANGED <<session, temporary, elsewhere, matched, post>>

-----------------------------------------------------------------------------
(* The router                                                              *)

\* The chunk of the route has loaded and its match is committed.
Commit ==
  /\ matched # loc
  /\ matched' = loc
  /\ UNCHANGED <<session, temporary, elsewhere, loc, redirect, cache, post, foreign, changed>>

\* A link, the palette, or the browser's back button.
Goto(p) ==
  /\ loc # p
  /\ loc' = p
  /\ cache' = Rendered(p, cache)
  /\ UNCHANGED <<session, temporary, elsewhere, matched, redirect, post, foreign, changed>>

\* Mutated form of RootEffect: the effect is left to the app shell.
RootEffectInShell ==
  /\ Shown = "shell"
  /\ cache["me"].error = "unauthorized"
  /\ loc' = Login
  /\ redirect' = loc
  /\ UNCHANGED <<session, temporary, elsewhere, matched, cache, post, foreign, changed>>

\* RootShell: the effect for a tab that left the sign-in page without a session.
RootEffect ==
  /\ loc # Login
  /\ cache["me"].error = "unauthorized"
  /\ loc' = Login
  /\ redirect' = loc
  /\ UNCHANGED <<session, temporary, elsewhere, matched, cache, post, foreign, changed>>

\* LoginPage is on the screen: alone, or inside the shell until the new route
\* has loaded.
LoginPage == matched = Login /\ Shown \in {"outlet", "shell"}

\* LoginPage: the effect that leaves the page once there is a user.
LoginEffect ==
  /\ LoginPage
  /\ cache["me"].data # NoUser
  /\ loc # Home
  /\ loc' = Home
  /\ cache' = Rendered(Home, cache)
  /\ UNCHANGED <<session, temporary, elsewhere, matched, redirect, post, foreign, changed>>

-----------------------------------------------------------------------------
(* Sign-in                                                                 *)

\* One form is under way at a time, each on a screen of its own.
Submit(form, u) ==
  /\ post.form = "none"
  /\ post' = [form |-> form, as |-> u, answer |-> "none"]
  /\ UNCHANGED <<session, temporary, elsewhere, loc, matched, redirect, cache, foreign, changed>>

Waiting(form) == post.form = form /\ post.answer = "none"
Answered(form) == post.form = form /\ post.answer # "none"
Answers(as) == \E a \in as : post' = [post EXCEPT !.answer = a]

\* LoginPage: submit, with the address of a user.
SubmitLogin(u) == LoginPage /\ Submit("login", u)

\* The server opens a session or refuses the password; the answer may be lost
\* whatever the server did, and then the tab does not know of the session.
ServeLogin ==
  /\ Waiting("login")
  /\ \/ /\ session' = post.as
        /\ Answers({"ok", "lost"})
        /\ foreign' = (foreign \/ post'.answer = "lost")
        /\ changed' = FALSE
     \/ /\ Answers({"unauthorized", "lost"})
        /\ UNCHANGED <<session, foreign, changed>>
  /\ UNCHANGED <<temporary, elsewhere, loc, matched, redirect, cache>>

\* LoginPage: safeRedirect.
SafeRedirect(r) == IF r \in Pages THEN r ELSE Home

\* LoginPage: onSuccess.  The invalidation finds nothing after the clear.
LoginSucceeds ==
  /\ Answered("login") /\ post.answer = "ok"
  /\ post' = NoPost
  /\ cache' = Clear
  /\ loc' = SafeRedirect(redirect)
  /\ foreign' = FALSE
  /\ changed' = FALSE
  /\ UNCHANGED <<session, temporary, elsewhere, matched, redirect>>

\* A wrong password is a 401 too, and passes the same interceptor.
LoginFails ==
  /\ Answered("login") /\ post.answer # "ok"
  /\ post' = NoPost
  /\ IF post.answer = "unauthorized" THEN OnUnauthorized(cache)
     ELSE UNCHANGED <<loc, redirect, cache, foreign, changed>>
  /\ UNCHANGED <<session, temporary, elsewhere, matched>>

-----------------------------------------------------------------------------
(* Temporary password                                                      *)

\* ChangePasswordForm: submit, with two equal passwords.
SubmitPassword == Shown = "sheet" /\ Submit("password", NoUser)

ServePassword ==
  /\ Waiting("password")
  /\ \/ /\ session # NoUser
        /\ temporary' = temporary \ {session}
        /\ Answers({"ok", "lost"})
     \/ /\ Answers({"lost", IF session = NoUser THEN "unauthorized" ELSE "refused"})
        /\ UNCHANGED temporary
  /\ UNCHANGED <<session, elsewhere, loc, matched, redirect, cache, foreign, changed>>

\* The read of "me" that follows a new password is made in the session that the
\* password opened.
OpensPages ==
  Shown = "sheet" /\ cache["me"].req = "idle" /\ session \in Users \ temporary

\* Mutated form of PasswordAnswered: "me" is not read again.
PasswordAnsweredQuietly ==
  /\ Answered("password")
  /\ post' = NoPost
  /\ changed' = (changed \/ (post.answer = "ok" /\ OpensPages))
  /\ UNCHANGED <<session, temporary, elsewhere, loc, matched, redirect, cache, foreign>>

\* RootShell: onSuccess invalidates "me".  A request that is under way for a
\* query without data is joined, not replaced, although it may be older than
\* the new password.
PasswordAnswered ==
  /\ Answered("password")
  /\ post' = NoPost
  /\ CASE post.answer = "unauthorized" -> OnUnauthorized(cache)
       [] post.answer = "ok" ->
            /\ cache' = IF cache["me"].req = "idle" \/ cache["me"].data # NoUser
                        THEN [cache EXCEPT !["me"].req = "sent"] ELSE cache
            /\ changed' = (changed \/ OpensPages)
            /\ UNCHANGED <<loc, redirect, foreign>>
       [] OTHER -> UNCHANGED <<loc, redirect, cache, foreign, changed>>
  /\ UNCHANGED <<session, temporary, elsewhere, matched>>

\* RootShell: "Use another account".  The session of the cookie stays.
UseAnotherAccount ==
  /\ Shown = "sheet"
  /\ cache' = Clear
  /\ loc' = Login
  /\ redirect' = NoPage
  /\ foreign' = FALSE
  /\ changed' = FALSE
  /\ UNCHANGED <<session, temporary, elsewhere, matched, post>>

-----------------------------------------------------------------------------
(* Sign-out                                                                *)

\* useSignOut: the request.
SignOut == Shown = "shell" /\ Submit("signout", NoUser)

ServeSignOut ==
  /\ Waiting("signout")
  /\ \/ /\ session' = NoUser
        /\ Answers({"ok", "lost"})
     \/ /\ Answers({"lost"} \cup IF session = NoUser THEN {"unauthorized"} ELSE {})
        /\ UNCHANGED session
  /\ UNCHANGED <<temporary, elsewhere, loc, matched, redirect, cache, foreign, changed>>

\* useSignOut: finally, after a failure as after a success.  A 401 has passed
\* RootShell's callback before, which the navigation here overrides.
SignOutAnswered ==
  /\ Answered("signout")
  /\ post' = NoPost
  /\ cache' = Clear
  /\ loc' = Login
  /\ redirect' = NoPage
  /\ foreign' = FALSE
  /\ changed' = FALSE
  /\ UNCHANGED <<session, temporary, elsewhere, matched>>

-----------------------------------------------------------------------------
(* Outside this tab                                                        *)

\* The session expires or is revoked, or another tab signs in.
SessionChanges(u) ==
  /\ elsewhere < MaxElsewhere
  /\ u # session
  /\ elsewhere' = elsewhere + 1
  /\ session' = u
  /\ foreign' = (foreign \/ u \in Users)
  /\ changed' = FALSE
  /\ UNCHANGED <<temporary, loc, matched, redirect, cache, post>>

Tab ==
  \/ \E q \in Queries : Fetch(q) \/ Refetch(q) \/ Read(q)
  \/ Commit \/ RootEffect \/ LoginEffect
  \/ \E p \in Pages : Goto(p)
  \/ \E u \in Users : SubmitLogin(u)
  \/ LoginSucceeds \/ LoginFails
  \/ SubmitPassword \/ PasswordAnswered \/ UseAnotherAccount
  \/ SignOut \/ SignOutAnswered

Server ==
  \/ \E q \in Queries : ServeRead(q)
  \/ ServeLogin \/ ServePassword \/ ServeSignOut
  \/ \E u \in Users \cup {NoUser} : SessionChanges(u)

Next == Tab \/ Server

\* Requests are answered or time out, answers are handled, routes load, effects
\* run after the render that enables them.  Strong fairness of the read of "me":
\* a user does not submit the password again and again, each time before the
\* read that the last success started is answered.  The user owes nothing else.
Fairness ==
  /\ \A q \in Queries : WF_vars(Fetch(q)) /\ WF_vars(ServeRead(q)) /\ SF_vars(Read(q))
  /\ WF_vars(Commit) /\ WF_vars(RootEffect) /\ WF_vars(LoginEffect)
  /\ WF_vars(ServeLogin) /\ WF_vars(LoginSucceeds) /\ WF_vars(LoginFails)
  /\ WF_vars(ServePassword) /\ WF_vars(PasswordAnswered)
  /\ WF_vars(ServeSignOut) /\ WF_vars(SignOutAnswered)

Spec == Init /\ [][Next]_vars /\ Fairness

-----------------------------------------------------------------------------
(* Properties                                                              *)

\* The shell names one user and lists what was read in the session of that
\* user: nothing of an earlier session outlives sign-out, a 401 or a sign-in,
\* not even the answer to a request that was under way.  Another tab may change
\* the cookie, which this tab learns with the next read of "me".
NoForeignData ==
  (Shown = "shell" /\ ~foreign /\ post.form # "login") =>
    cache["list"].data \in {NoUser, cache["me"].data}

\* A sign-in returns to a page of the shell, and the sign-in page never becomes
\* its own destination: however the tab is thrown out, by a late 401, a wrong
\* password or the effect, the parameter names a page.
RedirectIsPage == redirect # Login

\* The spinner of RootShell ends: the cache that is cleared under a mounted
\* query is read again, or the tab moves on.
SpinnerEnds == (Shown = "spinner") ~> (Shown # "spinner")

\* The sheet for a temporary password goes away once the server has accepted
\* the new one and "me" is read again, unless the session changes meanwhile.
SheetEnds == changed ~> (Shown # "sheet" \/ ~changed)

=============================================================================
