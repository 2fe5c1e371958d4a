---------------------------- MODULE StudioEditor ----------------------------
(***************************************************************************)
(* The resource editor of Studio (studio/src/features/resources), open on  *)
(* one composition of a draft: the query for the resource, the form that   *)
(* holds a copy of its body, the step graph that edits depends_on, the     *)
(* YAML view, Save and Delete, and the question the editor puts to the     *)
(* server 400ms after the steps change: what do their templates refer to?  *)
(*                                                                         *)
(* EditorForm copies the body when it mounts, and React mounts another one *)
(* when its key, the revision, changes.  A save carries the revision of    *)
(* the query and the body of the form.                                     *)
(*                                                                         *)
(* A body is the composition's step names, its depends_on pairs and the    *)
(* pairs that its templates refer to, each pair <<step, other step>>.      *)
(***************************************************************************)
EXTENDS Integers, FiniteSets

CONSTANTS
  Names,       \* step names
  Bodies,      \* bodies that other people save and that are typed as YAML
  MaxChanges,  \* bound: edits of the form, saves and deletes, other people's included
  Fields,      \* <<step, names>>: what is typed into depends_on and template fields
  MaxAsked     \* bound: unanswered questions of useStepDependencies

Pairs == Names \X Names
Body == [steps : SUBSET Names, deps : SUBSET Pairs, refs : SUBSET Pairs]
Blank == [steps |-> {}, deps |-> {}, refs |-> {}]

ASSUME EditorAssumption ==
  /\ IsFiniteSet(Names)
  /\ Bodies \subseteq Body
  /\ \A b \in Bodies : b.refs \subseteq b.steps \X b.steps /\ b.deps \subseteq b.steps \X Names
  /\ Fields \subseteq Names \X SUBSET Names
  /\ MaxChanges \in Nat /\ MaxAsked \in Nat

VARIABLES
  head,      \* server: the resource, revision 0 when there is none
  page,      \* "draft", the list of resources, or "editor"
  res,       \* the getResource query
  form,      \* EditorForm
  saves,     \* saveResource requests
  removal,   \* the deleteResource request
  lint,      \* useStepDependencies: what it shows, and its timer
  asks,      \* its requests; live until the effect is cleaned up
  count      \* edits, saves and deletes so far

vars == <<head, page, res, form, saves, removal, lint, asks, count>>

\* A resource as the server returns it.  life is no part of the code: it tells
\* a resource from one of the same name that was deleted before it.
Resource == [rev : Nat, body : Body, life : Nat]
Missing == [rev |-> 0, body |-> Blank, life |-> 0]

\* The getResource query, and the requests that change the resource: those of the
\* form on the screen are mine.
Query == [data : Resource, st : {"pending", "success", "missing", "error"},
          req : {"idle", "sent", "served"}, got : Resource]
SaveRequest == [base : Nat, body : Body, from : Resource, mine : BOOLEAN,
                st : {"sent", "ok", "conflict", "failed"}, got : Resource]
DeleteRequest == [st : {"idle", "sent", "ok", "refused"}, base : Nat]

NoForm == [on |-> FALSE, from |-> Missing, body |-> Blank, view |-> "form",
           yamlError |-> FALSE, stale |-> FALSE, deleting |-> FALSE]

TypeOK ==
  /\ head \in Resource
  /\ page \in {"draft", "editor"}
  /\ res \in Query
  /\ form \in [on : BOOLEAN, from : Resource, body : Body, view : {"form", "yaml"},
               yamlError : BOOLEAN, stale : BOOLEAN, deleting : BOOLEAN]
  /\ \A s \in saves : s \in SaveRequest
  /\ removal \in DeleteRequest
  /\ lint \in [shown : SUBSET Pairs, armed : BOOLEAN]
  /\ \A a \in asks : a \in [of : Body, live : BOOLEAN]
  /\ count \in 0..MaxChanges

Init ==
  /\ head \in {Missing} \cup [rev : {1}, body : Bodies, life : {1}]
  /\ page = "draft"
  /\ res = [data |-> Missing, st |-> "pending", req |-> "idle", got |-> Missing]
  /\ form = NoForm
  /\ saves = {}
  /\ removal = [st |-> "idle", base |-> 0]
  /\ lint = [shown |-> {}, armed |-> FALSE]
  /\ asks = {}
  /\ count = 0

-----------------------------------------------------------------------------
(* The step graph                                                          *)

\* The template references that are drawn: they name another step of the graph and are
\* not in depends_on.
inferredFor(b, inferred) ==
  {p \in inferred : p[1] # p[2] /\ {p[1], p[2]} \subseteq b.steps /\ p \notin b.deps}

\* The solid edges: depends_on between steps of the graph.
stepEdges(b) == {p \in b.deps : p[2] \in b.steps}

\* The body with other depends_on of step.
withDependsOn(b, step, D) ==
  [b EXCEPT !.deps = {p \in @ : p[1] # step} \cup ({step} \X D)]

\* Mutated form of runtime: template references are drawn but do not count.
DependsOnOnly(b, inferred) == stepEdges(b)

\* What each step waits for; a name in depends_on that no step has counts for nothing.
runtime(b, inferred) == stepEdges(b) \cup inferredFor(b, inferred)

\* step reaches target over the pairs of D.
dependsOnTransitively(D, step, target) ==
  LET seen[S \in SUBSET Names] ==
        LET T == S \cup {d \in Names : \E s \in S : <<s, d>> \in D}
        IN IF T = S THEN S ELSE seen[T]
  IN target \in seen[{step}]

\* Mutated form of nextWave: one dependency that is placed is enough.
nextWaveOfSome(D, remaining) ==
  LET wave == {s \in remaining : (\A d \in Names : <<s, d>> \notin D)
                                 \/ \E d \in Names \ remaining : <<s, d>> \in D}
  IN IF wave # {} THEN wave ELSE remaining

\* The steps whose dependencies have all been placed; everything that is left when
\* there is none.
nextWave(D, remaining) ==
  LET wave == {s \in remaining : \A d \in remaining : <<s, d>> \notin D}
  IN IF wave # {} THEN wave ELSE remaining

\* The wave of each step of S: the column in which the graph draws it.
computeWaves(S, D) ==
  LET waves[remaining \in SUBSET S] ==
        IF remaining = {} THEN [s \in {} |-> 0]
        ELSE LET next == nextWave(D, remaining)
                 rest == waves[remaining \ next]
             IN [s \in remaining |-> IF s \in next THEN 1 ELSE rest[s] + 1]
  IN waves[S]

\* StepDependencies, on the server: the references that are not in depends_on.
Inferred(b) == b.refs \ b.deps

-----------------------------------------------------------------------------
(* Mounting                                                                *)

Shows(p, r) == p = "editor" /\ r.st \in {"success", "missing"}

\* Mutated form of Kept: the key of EditorForm has no revision.
KeptByName(p, r) == form.on /\ Shows(p, r)

\* React keeps the form while it is shown under the same key.
Kept(p, r) == form.on /\ Shows(p, r) /\ form.from.rev = r.data.rev

\* The page p with the query r.  A form that is not kept takes its state with it: the
\* answers to its questions find nothing to set, its saves go on without it.  A new
\* form copies the body and starts the timer.
Render(p, r, sv) ==
  /\ page' = p
  /\ res' = r
  /\ IF Kept(p, r)
     THEN saves' = sv /\ UNCHANGED <<form, lint, asks>>
     ELSE /\ form' = IF Shows(p, r) THEN [NoForm EXCEPT !.on = TRUE, !.from = r.data, !.body = r.data.body]
                     ELSE NoForm
          /\ saves' = {[s EXCEPT !.mine = FALSE] : s \in sv}
          /\ lint' = [shown |-> {}, armed |-> Shows(p, r)]
          /\ asks' = {}

\* DraftPage: a link, or NewResourceDialog, opens the editor.
Open ==
  /\ page = "draft"
  /\ Render("editor", res, saves)
  /\ UNCHANGED <<head, removal, count>>

\* Any link of the page leads away from the editor.
Leave ==
  /\ page = "editor"
  /\ Render("draft", res, saves)
  /\ UNCHANGED <<head, removal, count>>

-----------------------------------------------------------------------------
(* getResource                                                             *)

\* The query is mounted, the window gets the focus, or the user presses Retry.
FetchResource ==
  /\ page = "editor"
  /\ res.req = "idle"
  /\ res' = [res EXCEPT !.req = "sent"]
  /\ UNCHANGED <<head, page, form, saves, removal, lint, asks, count>>

\* The Reload prompt: invalidateQueries aborts the read under way for a new one.
Reload ==
  /\ form.stale
  /\ res' = [res EXCEPT !.req = "sent", !.got = Missing]
  /\ UNCHANGED <<head, page, form, saves, removal, lint, asks, count>>

ServeResource ==
  /\ res.req = "sent"
  /\ res' = [res EXCEPT !.req = "served", !.got = head]
  /\ UNCHANGED <<head, page, form, saves, removal, lint, asks, count>>

\* A 404 means a new resource and leaves the data that there is; any other error
\* takes the form away until the next read.
ResourceArrives(ok) ==
  /\ res.req = "served"
  /\ Render(page, [data |-> IF ok /\ res.got.rev > 0 THEN res.got ELSE res.data,
                   st |-> IF ~ok THEN "error" ELSE IF res.got.rev > 0 THEN "success" ELSE "missing",
                   req |-> "idle", got |-> Missing], saves)
  /\ UNCHANGED <<head, removal, count>>

-----------------------------------------------------------------------------
(* Editing                                                                 *)

\* setBody: new steps restart the timer and end the interest in earlier answers.
Edit(b) ==
  /\ form.on /\ count < MaxChanges
  /\ count' = count + 1
  /\ form' = [form EXCEPT !.body = b]
  /\ lint' = [lint EXCEPT !.armed = @ \/ b # form.body]
  /\ asks' = IF b = form.body THEN asks ELSE {[a EXCEPT !.live = FALSE] : a \in asks}
  /\ UNCHANGED <<head, page, res, saves, removal>>

InForm == form.on /\ form.view = "form"

\* StepGraph connect: a handle is dragged, or an edge is chosen below the graph.
\* An edge to itself, one that is there and one that closes a cycle change nothing.
Connect(step, dep) ==
  /\ InForm
  /\ {step, dep} \subseteq form.body.steps
  /\ step # dep
  /\ <<step, dep>> \notin form.body.deps
  /\ ~dependsOnTransitively(runtime(form.body, lint.shown), dep, step)
  /\ Edit(withDependsOn(form.body, step, {d \in Names : <<step, d>> \in form.body.deps} \cup {dep}))

\* StepGraph disconnect: only solid edges, the ones of depends_on, can be removed.
Disconnect(pair) ==
  /\ InForm
  /\ pair \in stepEdges(form.body)
  /\ Edit(withDependsOn(form.body, pair[1],
                        {d \in Names \ {pair[2]} : <<pair[1], d>> \in form.body.deps}))

\* SchemaField: the depends_on field of a step takes any names.
SetDependsOn(step, D) ==
  /\ InForm /\ step \in form.body.steps
  /\ Edit(withDependsOn(form.body, step, D))

\* ScalarField: a template field of a step refers to other steps.
SetTemplates(step, R) ==
  /\ InForm /\ step \in form.body.steps /\ R \subseteq form.body.steps
  /\ Edit([form.body EXCEPT !.refs = {p \in @ : p[1] # step} \cup ({step} \X R)])

\* The YAML view: text that parses to a mapping.
TypeYaml(b) ==
  /\ form.on /\ form.view = "yaml" /\ count < MaxChanges
  /\ count' = count + 1
  /\ form' = [form EXCEPT !.body = b, !.yamlError = FALSE]
  /\ lint' = [lint EXCEPT !.armed = @ \/ b # form.body]
  /\ asks' = IF b = form.body THEN asks ELSE {[a EXCEPT !.live = FALSE] : a \in asks}
  /\ UNCHANGED <<head, page, res, saves, removal>>

\* Text that does not parse: the body stays.
BreakYaml ==
  /\ form.on /\ form.view = "yaml" /\ ~form.yamlError
  /\ form' = [form EXCEPT !.yamlError = TRUE]
  /\ UNCHANGED <<head, page, res, saves, removal, lint, asks, count>>

\* The tabs.  The YAML text is written again from the body, and yamlError stays.
SwitchView ==
  /\ form.on
  /\ form' = [form EXCEPT !.view = IF @ = "form" THEN "yaml" ELSE "form"]
  /\ UNCHANGED <<head, page, res, saves, removal, lint, asks, count>>

-----------------------------------------------------------------------------
(* useStepDependencies                                                     *)

\* 400ms without an edit.
Ask ==
  /\ lint.armed /\ Cardinality(asks) < MaxAsked
  /\ lint' = [lint EXCEPT !.armed = FALSE]
  /\ asks' = asks \cup {[of |-> form.body, live |-> TRUE]}
  /\ UNCHANGED <<head, page, res, form, saves, removal, count>>

\* Mutated form of Answered: an answer counts however old its question is.
AnsweredLate(a, ok) == IF form.on THEN IF ok THEN Inferred(a.of) ELSE {} ELSE lint.shown

\* What is shown after the answer to a; an error shows no references.
Answered(a, ok) == IF a.live THEN IF ok THEN Inferred(a.of) ELSE {} ELSE lint.shown

AskAnswered(a, ok) ==
  /\ asks' = asks \ {a}
  /\ lint' = [lint EXCEPT !.shown = Answered(a, ok)]
  /\ UNCHANGED <<head, page, res, form, saves, removal, count>>

-----------------------------------------------------------------------------
(* Save and Delete                                                         *)

Save ==
  /\ form.on
  /\ form.body # form.from.body /\ ~form.yamlError
  /\ ~\E s \in saves : s.mine
  /\ count < MaxChanges
  /\ count' = count + 1
  /\ form' = [form EXCEPT !.stale = FALSE]
  /\ saves' = saves \cup {[base |-> res.data.rev, body |-> form.body, from |-> form.from,
                           mine |-> TRUE, st |-> "sent", got |-> Missing]}
  /\ UNCHANGED <<head, page, res, removal, lint, asks>>

\* saveResource on the server: applied when base is the revision it has, or refused,
\* or it fails.
Accepts(s) == s.st = "sent" /\ s.base = head.rev

Written(b) ==
  [rev |-> head.rev + 1, body |-> b, life |-> IF head.rev = 0 THEN head.life + 1 ELSE head.life]

ServeSave(s, ok) ==
  /\ s.st = "sent"
  /\ head' = IF ok /\ Accepts(s) THEN Written(s.body) ELSE head
  /\ saves' = (saves \ {s}) \cup
       {[s EXCEPT !.st = IF ~ok THEN "failed" ELSE IF Accepts(s) THEN "ok" ELSE "conflict",
                  !.got = IF ok /\ Accepts(s) THEN Written(s.body) ELSE Missing]}
  /\ UNCHANGED <<page, res, form, removal, lint, asks, count>>

\* onSuccess puts the answer into the query, whichever form asked; a read that is
\* under way goes on.
SaveSucceeds(s) ==
  /\ s.st = "ok"
  /\ Render(page, [res EXCEPT !.data = s.got, !.st = "success"], saves \ {s})
  /\ UNCHANGED <<head, removal, count>>

\* A refusal, an error, or an answer that is lost.
SaveFails(s) ==
  /\ s.st # "sent"
  /\ saves' = saves \ {s}
  /\ form' = IF s.mine THEN [form EXCEPT !.stale = s.st = "conflict"] ELSE form
  /\ UNCHANGED <<head, page, res, removal, lint, asks, count>>

OpenDelete ==
  /\ form.on /\ res.data.rev > 0 /\ ~form.deleting
  /\ form' = [form EXCEPT !.deleting = TRUE]
  /\ UNCHANGED <<head, page, res, saves, removal, lint, asks, count>>

CancelDelete ==
  /\ form.deleting
  /\ form' = [form EXCEPT !.deleting = FALSE]
  /\ UNCHANGED <<head, page, res, saves, removal, lint, asks, count>>

ConfirmDelete ==
  /\ form.deleting /\ removal.st = "idle"
  /\ count < MaxChanges
  /\ count' = count + 1
  /\ removal' = [st |-> "sent", base |-> res.data.rev]
  /\ UNCHANGED <<head, page, res, form, saves, lint, asks>>

ServeDelete ==
  /\ removal.st = "sent"
  /\ removal' = [removal EXCEPT !.st = IF removal.base = head.rev THEN "ok" ELSE "refused"]
  /\ head' = IF removal.base = head.rev THEN [head EXCEPT !.rev = 0, !.body = Blank] ELSE head
  /\ UNCHANGED <<page, res, form, saves, lint, asks, count>>

\* onSuccess leads to the draft, wherever the user has gone.
DeleteAnswered ==
  /\ removal.st \in {"ok", "refused"}
  /\ removal' = [st |-> "idle", base |-> 0]
  /\ Render(IF removal.st = "ok" THEN "draft" ELSE page, res, saves)
  /\ UNCHANGED <<head, count>>

OthersSave(b) ==
  /\ count < MaxChanges
  /\ head' = Written(b)
  /\ count' = count + 1
  /\ UNCHANGED <<page, res, form, saves, removal, lint, asks>>

OthersDelete ==
  /\ head.rev > 0 /\ count < MaxChanges
  /\ head' = [head EXCEPT !.rev = 0, !.body = Blank]
  /\ count' = count + 1
  /\ UNCHANGED <<page, res, form, saves, removal, lint, asks>>

-----------------------------------------------------------------------------

Editing ==
  \/ \E step, dep \in Names : Connect(step, dep)
  \/ \E pair \in Pairs : Disconnect(pair)
  \/ \E f \in Fields : SetDependsOn(f[1], f[2]) \/ SetTemplates(f[1], f[2])
  \/ \E b \in Bodies : TypeYaml(b)
  \/ BreakYaml \/ SwitchView

Next ==
  \/ Open \/ Leave \/ FetchResource \/ Reload \/ ServeResource
  \/ \E ok \in BOOLEAN : ResourceArrives(ok)
  \/ Editing
  \/ Ask
  \/ \E a \in asks, ok \in BOOLEAN : AskAnswered(a, ok)
  \/ Save
  \/ \E s \in saves : (\E ok \in BOOLEAN : ServeSave(s, ok)) \/ SaveSucceeds(s) \/ SaveFails(s)
  \/ OpenDelete \/ CancelDelete \/ ConfirmDelete \/ ServeDelete \/ DeleteAnswered
  \/ OthersDelete \/ \E b \in Bodies : OthersSave(b)

\* Timers fire and requests are answered; nobody has to edit.
Fairness ==
  /\ WF_vars(Ask)
  /\ WF_vars(\E a \in asks, ok \in BOOLEAN : AskAnswered(a, ok))

Spec == Init /\ [][Next]_vars /\ Fairness

-----------------------------------------------------------------------------
(* Properties                                                              *)

\* The server applies a save only to the body that the user began to edit: whatever
\* other people saved, and whatever the background reads brought, in between, the
\* revision a save carries is the one its form was opened on.  (A resource that was
\* deleted and created again counts its revisions anew, and is left out here.)
NoBlindOverwrite ==
  [][\A s \in saves :
       s.st = "sent" /\ head' # head /\ [s EXCEPT !.st = "ok", !.got = head'] \in saves'
                     /\ s.from.life = head.life /\ s.from.rev > 0
         => s.from.body = head.body]_vars

IsAcyclic(D) == \E rank \in [Names -> 1..Cardinality(Names)] : \A p \in D : rank[p[2]] < rank[p[1]]

\* "An edge that would make a cycle is refused": once the references shown are those
\* of the steps, drawing an edge leaves what the gateway waits for free of cycles.
DrawsNoCycle ==
  [][form.on /\ lint.shown = Inferred(form.body)
       /\ IsAcyclic(form.body.deps \cup form.body.refs)
       /\ (\E step, dep \in Names : Connect(step, dep))
     => IsAcyclic(form'.body.deps \cup form'.body.refs)]_vars

\* A chain of n steps of S that wait for each other ends in s.
EndsChain(S, D, s, n) ==
  \E c \in [1..n -> S] : c[n] = s /\ \A i \in 1..(n - 1) : <<c[i + 1], c[i]>> \in D

\* The graph draws a step in the wave in which the gateway runs it, the length of the
\* longest chain of dependencies behind it, and all steps that wait for a cycle in
\* the last wave.
WavesShowExecution ==
  LET b == form.body
      D == runtime(b, lint.shown)
      W == computeWaves(b.steps, D)
      Stuck(s) == EndsChain(b.steps, D, s, Cardinality(b.steps) + 1)
  IN \A s \in b.steps :
       IF Stuck(s) THEN \A t \in b.steps : W[t] <= W[s] /\ (Stuck(t) \/ W[t] < W[s])
       ELSE EndsChain(b.steps, D, s, W[s]) /\ ~EndsChain(b.steps, D, s, W[s] + 1)

\* When the edits end, the references shown are those of the steps on the page, or
\* none after an error: an answer to an earlier question, which may arrive last,
\* does not replace them.
LintCatchesUp == <>[](form.on => lint.shown \in {{}, Inferred(form.body)})

=============================================================================
