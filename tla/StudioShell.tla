---------------------------- MODULE StudioShell -----------------------------
(***************************************************************************)
(* The frame around the pages of Studio (studio/src/app and the dialog and *)
(* toast components): the command palette with its ranked entries, the     *)
(* shortcut sheet, the dialogs that the palette opens, the "g" chords of   *)
(* the keyboard, and the toasts.                                           *)
(*                                                                         *)
(* A dialog keeps its content for 220ms after it closes.  A chord is two   *)
(* keys within 1200ms.  The keyboard handler is registered by an effect    *)
(* and sees the role and the environment of that moment.  Toasts live      *)
(* outside the shell: they outlast a sign-out, their timers do not.        *)
(*                                                                         *)
(* A query of the palette is the score it gives to each entry.             *)
(***************************************************************************)
EXTENDS Integers, FiniteSets, Sequences, SequencesExt

CONSTANTS
  EnvList,      \* the environments, in the order in which they are listed
  NoEnv,
  NavItems,     \* nav.ts: sequence of pages [to, min] outside environments
  EnvPages,     \* nav.ts: sequence of pages [to, min] of an environment
  NoQuery,      \* the empty query
  Scores,       \* other queries: functions that score entries by <<label, env>>
  MaxPerGroup,  \* entries of a group that the palette shows
  MaxShown,     \* toasts on the screen
  MaxToasts     \* bound: toasts

Envs == Range(EnvList)
indexOf == [viewer |-> 0, editor |-> 1, owner |-> 2]
Roles == DOMAIN indexOf
ShellPages == [to : {p.to : p \in Range(NavItems)}, env : {NoEnv}]
         \cup [to : {p.to : p \in Range(EnvPages)} \cup {"overview", "resource"}, env : Envs]
ShellHome == [to |-> NavItems[1].to, env |-> NoEnv]
\* What the palette calls its entries.
Labels == {"new", "shortcuts", "overview", "resource"}
          \cup {p.to : p \in Range(NavItems) \cup Range(EnvPages)}
Layers == {"palette", "sheet", "newEnvironment"}

ASSUME ShellAssumption ==
  /\ EnvList \in Seq(Envs) /\ NoEnv \notin Envs
  /\ NavItems \in Seq(Range(NavItems)) /\ EnvPages \in Seq(Range(EnvPages))
  /\ NoQuery \notin Scores /\ \A q \in Scores : q \in [Labels \X (Envs \cup {NoEnv}) -> Nat]
  /\ MaxPerGroup \in Nat \ {0} /\ MaxShown \in Nat \ {0} /\ MaxToasts \in Nat
  /\ \A p \in Range(NavItems) \cup Range(EnvPages) : p.min \in Roles

VARIABLES
  on,        \* the shell is mounted: somebody is signed in
  role,      \* the role of the current user
  page,      \* the page, and its environment
  bound,     \* the role and environment that the keyboard handler sees
  chord,     \* "g" was pressed less than 1200ms ago
  layer,     \* the palette, the sheet and a dialog of the palette
  newIn,     \* the environment of the open NewResourceDialog
  known,     \* environments that the palette has loaded
  search,    \* the query and the selected index of the palette
  toasts,    \* the items of toast.tsx, with the timer of each card
  made       \* toasts so far

palette == <<layer, newIn, known, search>>
notices == <<toasts, made>>
shellVars == <<on, role, page, bound, chord, palette, notices>>

Away == [open |-> FALSE, rendered |-> FALSE, fading |-> FALSE]
Start == [query |-> NoQuery, active |-> 0]

ShellTypeOK ==
  /\ on \in BOOLEAN /\ chord \in BOOLEAN
  /\ role \in Roles
  /\ page \in ShellPages
  /\ bound \in [role : Roles, env : Envs \cup {NoEnv}]
  /\ layer \in [Layers -> [open : BOOLEAN, rendered : BOOLEAN, fading : BOOLEAN]]
  /\ newIn \in Envs \cup {NoEnv}
  /\ known \in {<<>>, EnvList}
  /\ search.query \in Scores \cup {NoQuery} /\ search.active \in Nat
  /\ Len(toasts) <= MaxShown
  /\ \A i \in 1..Len(toasts) :
       toasts[i] \in [id : 1..MaxToasts, leaving : BOOLEAN, timer : BOOLEAN, hover : BOOLEAN]
  /\ made \in 0..MaxToasts

\* can: role is at least min.
can(r, min) == indexOf[r] >= indexOf[min]

ShellInit ==
  /\ on = TRUE
  /\ role \in Roles
  /\ page = ShellHome
  /\ bound = [role |-> role, env |-> NoEnv]
  /\ chord = FALSE
  /\ layer = [l \in Layers |-> Away]
  /\ newIn = NoEnv
  /\ known = <<>>
  /\ search = Start
  /\ toasts = <<>>
  /\ made = 0

-----------------------------------------------------------------------------
(* Navigation and the keyboard handler                                     *)

\* Mutated form of Rebound: the effect depends on the role only.
ReboundByRole(r, env) == IF r = bound.role THEN bound ELSE [role |-> r, env |-> env]

\* useGlobalShortcuts: the effect registers the handler again when either changes.
Rebound(r, env) == [role |-> r, env |-> env]

navigate(p) == page' = p /\ bound' = Rebound(role, p.env)

Modal == newIn # NoEnv \/ \E l \in Layers : layer[l].open

\* chordTargets: the pages that a second key leads to.
chordTargets ==
  {[to |-> p.to, env |-> NoEnv] : p \in {q \in Range(NavItems) : can(bound.role, q.min)}}
  \cup (IF bound.env = NoEnv THEN {}
        ELSE {[to |-> p.to, env |-> bound.env] : p \in {q \in Range(EnvPages) : can(bound.role, q.min)}})

\* "g"
StartChord ==
  /\ on /\ ~Modal /\ ~chord
  /\ chord' = TRUE
  /\ UNCHANGED <<on, role, page, bound, palette, notices>>

\* The second key; one that means nothing only ends the chord.
EndChord(p) ==
  /\ on /\ ~Modal /\ chord
  /\ chord' = FALSE
  /\ IF p \in chordTargets THEN navigate(p) ELSE UNCHANGED <<page, bound>>
  /\ UNCHANGED <<on, role, palette, notices>>

ChordExpires ==
  /\ chord
  /\ chord' = FALSE
  /\ UNCHANGED <<on, role, page, bound, palette, notices>>

\* A link of the nav, which shows the pages of the role.
FollowLink(p) ==
  /\ on /\ ~Modal /\ p # page
  /\ \E q \in Range(NavItems) : q.to = p.to /\ can(role, q.min)
  /\ navigate(p)
  /\ UNCHANGED <<on, role, chord, palette, notices>>

\* EnvironmentNav: the pages of the environment that the role may see.
FollowTab(p) ==
  /\ on /\ ~Modal /\ p # page
  /\ p.env # NoEnv /\ p.env = page.env
  /\ \E q \in Range(EnvPages) : q.to = p.to /\ can(role, q.min)
  /\ navigate(p)
  /\ UNCHANGED <<on, role, chord, palette, notices>>

\* A row of the page, clicked, or marked with j and k and opened with Enter; any of
\* them may be the marked one.  Environments lead to their overview, resources to
\* their editor.
OpenRow(p) ==
  /\ on /\ ~Modal /\ p # page /\ p.env # NoEnv
  /\ \/ page = ShellHome /\ p.to = "overview"
     \/ page.env = p.env /\ p.to = "resource"
  /\ navigate(p)
  /\ UNCHANGED <<on, role, chord, palette, notices>>

\* The me query answers with another role.
RoleChanges(r) ==
  /\ on /\ r # role
  /\ role' = r
  /\ bound' = Rebound(r, page.env)
  /\ UNCHANGED <<on, page, chord, palette, notices>>

-----------------------------------------------------------------------------
(* Dialogs                                                                 *)

\* Mutated form of Opened: the timer of the last close is not cleared.
OpenedOverTimer(l) == [layer EXCEPT ![l] = [open |-> TRUE, rendered |-> TRUE, fading |-> @.fading]]

\* The content is rendered with the state; the effect clears the timer.
Opened(l) == [layer EXCEPT ![l] = [open |-> TRUE, rendered |-> TRUE, fading |-> FALSE]]

Closed(l) ==
  [layer EXCEPT ![l] = IF @.open THEN [open |-> FALSE, rendered |-> @.rendered, fading |-> TRUE] ELSE @]

\* 220ms after the close.
FadeEnds(l) ==
  /\ layer[l].fading
  /\ layer' = [layer EXCEPT ![l].rendered = FALSE, ![l].fading = FALSE]
  /\ UNCHANGED <<on, role, page, bound, chord, newIn, known, search, notices>>

\* Cmd+K, above whatever is open.  The query is cleared when the palette opens again;
\* here already when it closes, since nothing reads it in between.
TogglePalette ==
  /\ on
  /\ layer' = IF layer["palette"].open THEN Closed("palette") ELSE Opened("palette")
  /\ search' = Start
  /\ UNCHANGED <<on, role, page, bound, chord, newIn, known, notices>>

\* The search button of the side nav.
OpenPalette ==
  /\ on /\ ~Modal
  /\ layer' = Opened("palette")
  /\ search' = Start
  /\ UNCHANGED <<on, role, page, bound, chord, newIn, known, notices>>

\* "?", outside a chord.
ShowSheet ==
  /\ on /\ ~Modal /\ ~chord
  /\ layer' = Opened("sheet")
  /\ UNCHANGED <<on, role, page, bound, chord, newIn, known, search, notices>>

\* Escape, the close button, or a click beside the palette; below the palette the
\* order in which dialogs were stacked is not kept.
CloseLayer(l) ==
  /\ on /\ layer[l].open
  /\ l # "palette" => ~layer["palette"].open
  /\ layer' = Closed(l)
  /\ search' = Start
  /\ UNCHANGED <<on, role, page, bound, chord, newIn, known, notices>>

\* NewResourceDialog: Cancel, or Continue to the editor of the new resource.
LeaveNewResource(continue) ==
  /\ on /\ newIn # NoEnv /\ ~layer["palette"].open
  /\ newIn' = NoEnv
  /\ IF continue THEN navigate([to |-> "resource", env |-> newIn]) ELSE UNCHANGED <<page, bound>>
  /\ UNCHANGED <<on, role, chord, layer, known, search, notices>>

-----------------------------------------------------------------------------
(* The command palette                                                     *)

Entry(group, label, env, min, when, run) ==
  [group |-> group, label |-> label, env |-> env, min |-> min, when |-> when, run |-> run]

\* The links to the pages of nav.ts in s, without the one that is listed already.
Links(s, env, group, when, listed) ==
  [i \in DOMAIN s |-> Entry(group, s[i].to, env, s[i].min,
                            IF s[i].to = listed THEN "never" ELSE when, "navigate")]

\* usePaletteItems, for every role, PerEnv being the entries for each environment that
\* is loaded, in order; theme and sign-out, which leave the shell as it is,
\* are left out.
paletteItems ==
  LET here == page.env
      PerEnv(E(_)) == FlattenSeq([i \in DOMAIN known |-> E(known[i])])
  IN <<Entry("Actions", "new", NoEnv, "owner", "both", "newEnvironment")>>
     \o PerEnv(LAMBDA e : <<Entry("Actions", "new", e, "editor",
                                  IF e = here THEN "both" ELSE "search", "newResource")>>)
     \o <<Entry("Actions", "shortcuts", NoEnv, "viewer", "both", "sheet")>>
     \o Links(NavItems, NoEnv, "Go to", "both", "")
     \o (IF here = NoEnv THEN <<>> ELSE Links(EnvPages, here, "Go to", "idle", ""))
     \o PerEnv(LAMBDA e : <<Entry("Environments", "overview", e, "viewer", "both", "navigate")>>
                          \o Links(EnvPages, e, "Environments", "search", "overview"))
     \o PerEnv(LAMBDA e : <<Entry("Resources", "resource", e, "viewer", "search", "navigate")>>)

\* matchScore: everything matches the empty query.
rank(it) == IF search.query = NoQuery THEN 1 ELSE search.query[<<it.label, it.env>>]

\* The positions of the entries of the current role that match.
Matching(items) ==
  {i \in DOMAIN items :
     /\ can(role, items[i].min)
     /\ items[i].when \notin {"never", IF search.query = NoQuery THEN "search" ELSE "idle"}
     /\ rank(items[i]) > 0}

\* The positions in S, best first, as a stable sort leaves them.
Sorted(S, ranks) ==
  LET before(i) == {j \in S : ranks[j] > ranks[i] \/ (ranks[j] = ranks[i] /\ j < i)}
  IN [k \in 1..Cardinality(S) |-> CHOOSE i \in S : Cardinality(before(i)) = k - 1]

\* Mutated form of Shortened: the group is cut before it is sorted.
ShortenedFirst(S, ranks) ==
  Sorted({i \in S : Cardinality({j \in S : j < i}) < MaxPerGroup}, ranks)

\* The best entries of a group, best first.
Shortened(S, ranks) ==
  LET s == Sorted(S, ranks)
  IN SubSeq(s, 1, IF Len(s) < MaxPerGroup THEN Len(s) ELSE MaxPerGroup)

\* The entries of the groups one after another, the group with the best entry first, and
\* groups that are as good in groupOrder.
rankItems ==
  LET items == paletteItems
      matching == Matching(items)
      ranks == [i \in DOMAIN items |-> rank(items[i])]
      of(g) == Shortened({i \in matching : items[i].group = g}, ranks)
      groups == <<of("Actions"), of("Go to"), of("Environments"), of("Resources")>>
      best(g) == IF groups[g] = <<>> THEN 0 ELSE ranks[groups[g][1]]
      order == Sorted(1..4, <<best(1), best(2), best(3), best(4)>>)
      flat == FlattenSeq([k \in 1..4 |-> groups[order[k]]])
  IN [k \in DOMAIN flat |-> items[flat[k]]]

InPalette == on /\ layer["palette"].open

\* listEnvironments and listResources are read while the palette is open.
PaletteLoads ==
  /\ InPalette /\ known = <<>>
  /\ known' = EnvList
  /\ UNCHANGED <<on, role, page, bound, chord, layer, newIn, search, notices>>

Type(q) ==
  /\ InPalette /\ q # search.query
  /\ search' = [query |-> q, active |-> 0]
  /\ UNCHANGED <<on, role, page, bound, chord, layer, newIn, known, notices>>

\* The selected index never passes the end, though the entries change under it.
Current(n) == IF search.active < n THEN search.active ELSE IF n = 0 THEN 0 ELSE n - 1

\* The arrow keys go round.
Move ==
  LET n == Len(rankItems)
  IN /\ InPalette /\ n > 0
     /\ \E d \in {1, -1} : search' = [search EXCEPT !.active = (Current(n) + d + n) % n]
     /\ UNCHANGED <<on, role, page, bound, chord, layer, newIn, known, notices>>

\* choose: the palette closes and the entry runs.
Run(it) ==
  /\ layer' = IF it.run \in Layers
              THEN [Closed("palette") EXCEPT ![it.run] = Opened(it.run)[it.run]]
              ELSE Closed("palette")
  /\ newIn' = IF it.run = "newResource" THEN it.env ELSE newIn
  /\ IF it.run = "navigate" THEN navigate([to |-> it.label, env |-> it.env])
     ELSE UNCHANGED <<page, bound>>
  /\ search' = Start
  /\ UNCHANGED <<on, role, chord, known, notices>>

Choose ==
  LET flat == rankItems
  IN /\ InPalette /\ flat # <<>>
     /\ Run(flat[Current(Len(flat)) + 1])

-----------------------------------------------------------------------------
(* Toasts                                                                  *)

\* toast: the oldest make room.
Toast ==
  /\ made < MaxToasts
  /\ made' = made + 1
  /\ LET all == Append(toasts, [id |-> made + 1, leaving |-> FALSE, timer |-> on, hover |-> FALSE])
     IN toasts' = IF Len(all) > MaxShown THEN SubSeq(all, Len(all) - MaxShown + 1, Len(all)) ELSE all
  /\ UNCHANGED <<on, role, page, bound, chord, palette>>

PointerEnters(i) ==
  /\ on /\ ~toasts[i].hover
  /\ toasts' = [toasts EXCEPT ![i].hover = TRUE, ![i].timer = FALSE]
  /\ UNCHANGED <<on, role, page, bound, chord, palette, made>>

\* Mutated form of Left: the timer is not started again.
LeftForGood(t) == [t EXCEPT !.hover = FALSE]

\* onMouseLeave starts the five seconds again, for a toast that is leaving too.
Left(t) == [t EXCEPT !.hover = FALSE, !.timer = TRUE]

PointerLeaves(i) ==
  /\ on /\ toasts[i].hover
  /\ toasts' = [toasts EXCEPT ![i] = Left(@)]
  /\ UNCHANGED <<on, role, page, bound, chord, palette, made>>

\* dismiss, after five seconds.
TimerFires(i) ==
  /\ toasts[i].timer
  /\ toasts' = [toasts EXCEPT ![i].leaving = TRUE, ![i].timer = FALSE]
  /\ UNCHANGED <<on, role, page, bound, chord, palette, made>>

\* The button, or the link of the toast.
Dismiss(i) ==
  /\ on /\ ~toasts[i].leaving
  /\ toasts' = [toasts EXCEPT ![i].leaving = TRUE]
  /\ UNCHANGED <<on, role, page, bound, chord, palette, made>>

\* 180ms after dismiss.
ToastGoes(i) ==
  /\ toasts[i].leaving
  /\ toasts' = RemoveAt(toasts, i)
  /\ UNCHANGED <<on, role, page, bound, chord, palette, made>>

\* Signing out unmounts the shell, and with it the cards and their timers.
ShellSignOut ==
  /\ on
  /\ on' = FALSE
  /\ toasts' = [i \in 1..Len(toasts) |-> [toasts[i] EXCEPT !.timer = FALSE, !.hover = FALSE]]
  /\ layer' = [l \in Layers |-> Away]
  /\ newIn' = NoEnv /\ known' = <<>> /\ search' = Start /\ chord' = FALSE
  /\ page' = ShellHome /\ bound' = [role |-> role, env |-> NoEnv]
  /\ UNCHANGED <<role, made>>

SignIn(r) ==
  /\ ~on
  /\ on' = TRUE
  /\ role' = r /\ bound' = [role |-> r, env |-> NoEnv]
  /\ toasts' = [i \in 1..Len(toasts) |-> [toasts[i] EXCEPT !.timer = TRUE]]
  /\ UNCHANGED <<page, chord, palette, made>>

-----------------------------------------------------------------------------

Notices ==
  \/ Toast
  \/ \E i \in 1..Len(toasts) :
       PointerEnters(i) \/ PointerLeaves(i) \/ TimerFires(i) \/ Dismiss(i) \/ ToastGoes(i)

ShellNext ==
  \/ StartChord \/ ChordExpires
  \/ \E p \in ShellPages : EndChord(p) \/ FollowLink(p) \/ FollowTab(p) \/ OpenRow(p)
  \/ \E r \in Roles : RoleChanges(r) \/ SignIn(r)
  \/ ShellSignOut
  \/ \E l \in Layers : FadeEnds(l) \/ CloseLayer(l)
  \/ TogglePalette \/ OpenPalette \/ ShowSheet
  \/ \E continue \in BOOLEAN : LeaveNewResource(continue)
  \/ PaletteLoads
  \/ \E q \in Scores : Type(q)
  \/ Move \/ Choose
  \/ Notices

\* Timers fire, and the pointer neither rests on a toast nor comes back to it within
\* the five seconds for ever: a toast under the pointer is meant to stay.
ShellFairness ==
  \A n \in 1..MaxShown :
    /\ SF_shellVars(n <= Len(toasts) /\ TimerFires(n))
    /\ WF_shellVars(n <= Len(toasts) /\ ToastGoes(n))
    /\ WF_shellVars(n <= Len(toasts) /\ PointerLeaves(n))

ShellSpec == ShellInit /\ [][ShellNext]_shellVars /\ ShellFairness

-----------------------------------------------------------------------------
(* Properties                                                              *)

\* An open dialog shows its content: closing it and opening it again within the 220ms
\* of its fade does not leave an empty sheet, which would also be modal.
OpenShowsContent == \A l \in Layers : layer[l].open => layer[l].rendered

\* "A search shows the group with the best match first, so Enter picks it": until the
\* selection is moved, no matching entry scores more than the selected one, whatever
\* the order of the groups, their limit and the entries that load while one types.
EnterPicksBest ==
  InPalette /\ search.query # NoQuery /\ search.active = 0 =>
    LET items == paletteItems
        first == rankItems[1]
    IN \A i \in Matching(items) : rank(items[i]) <= rank(first)

\* A chord stays in the environment on the screen and leads to a page of the current
\* role, though both may have changed since the handler was registered.
ChordsFollowPage ==
  [][on /\ chord /\ ~chord' /\ page' # page /\ on' =>
       IF page'.env = NoEnv THEN \E p \in Range(NavItems) : p.to = page'.to /\ can(role, p.min)
       ELSE page'.env = page.env /\ \E p \in Range(EnvPages) : p.to = page'.to /\ can(role, p.min)]_shellVars

\* "It closes itself after five seconds": a toast goes, though the pointer rested on it,
\* other toasts pushed it or its user signed out and another signed in.  (Only so many
\* toasts are made, so that in the end there is none.)
ToastsLeave == []<>(~on \/ toasts = <<>>)

=============================================================================
