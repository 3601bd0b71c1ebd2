----------------------------- MODULE FilePanes -----------------------------
(***************************************************************************)
(* The two file panes: FilePane.tsx with usePaneNav.ts and usePaneSort.ts, *)
(* over the panes of store.ts and the file calls of ipc.ts.                *)
(*                                                                         *)
(*   disk    what exists at each source; the frontend sees it by listings  *)
(*   loads   list() calls in flight; an effect's newest load may land      *)
(*   wire    fs:changed events, delivered in the order they were emitted   *)
(*   calls   file operations and enqueues under way, answered one by one   *)
(*   dials   awaits that end in setPane: connect, local start, boot        *)
(*                                                                         *)
(* A React render and its effects follow the state change that caused them *)
(* before the next event is handled, so they are part of that step.        *)
(* Sessions models the connections; here a site answers or it fails.       *)
(***************************************************************************)
EXTENDS PaneListing

CONSTANTS
  Sources,      \* "local" and the saved sites
  Scenes,       \* the instances checked; every behaviour belongs to one
  HistoryCap,   \* folders a pane remembers; 50 in the code
  MaxLoads      \* bound: list calls in flight per pane

Sides == {0, 1}
Other(s) == 1 - s

ASSUME PaneConstants ==
  /\ "local" \in Sources /\ "none" \notin Sources
  /\ MaxLoads \in Nat \ {0} /\ HistoryCap \in Nat \ {0}

\* A scene: what exists, where transfers put files, the folders a pane may be
\* led to, with those above them, the panes the user works in, the buttons and
\* how often they are pressed.
ASSUME SceneAssumption ==
  \A sc \in Scenes :
    /\ sc.presses \in Nat /\ sc.changes \in Nat /\ {sc.fails, sc.launch} \subseteq BOOLEAN
    /\ sc.at \in [Sides -> Sources] /\ sc.sides \subseteq Sides
    /\ DOMAIN sc.disk = Sources /\ sc.lands \subseteq Seq(Names) /\ sc.paths \subseteq Seq(Names)
    /\ \A src \in Sources : sc.disk[src] \subseteq Seq(Names) /\ Root \in sc.disk[src]
    /\ Root \in sc.paths
    /\ \A p \in sc.paths : \A k \in 0..Len(p) : SubSeq(p, 1, k) \in sc.paths

VARIABLES
  scene,
  \* --- backend ---
  disk,         \* the paths that exist, per source
  changes,      \* changes made by finished transfers so far
  wire, calls,
  \* --- store ---
  panes,        \* source and path of each pane
  active,       \* the pane the keyboard acts on
  confirm,      \* the question of a delete on screen
  suppressed,   \* the delete warning is silenced for this run
  \* --- usePaneNav, per pane ---
  loads,        \* list calls in flight
  nav,          \* loaded, failure, nonce, history
  cache,        \* listingCache, shared by the panes
  \* --- usePaneSort, shared by the panes ---
  sort,         \* the sort on screen
  mirror,       \* the stored preference as this run knows it
  hydration,    \* hydratePrefs: reading, read, done; what it read
  touched,      \* a heading was clicked
  \* --- FilePane, per pane ---
  sel,          \* cursor, anchor, marks, filter, landOn, menu, bgMenu
  prompt,       \* the name prompt
  timer,        \* a reload after fs:changed is scheduled
  dials,
  \* --- history ---
  missed,       \* an event concerned the pane's folder but not what it showed
  presses

navVars  == <<loads, nav, cache, missed>>
sortVars == <<sort, mirror, hydration, touched>>
backVars == <<disk, changes, wire>>
askVars  == <<confirm, suppressed, prompt>>
vars == <<scene, backVars, calls, panes, active, askVars, navVars, sortVars, sel, timer, dials,
          presses>>

Nothing == [source |-> "none", path |-> NoPath, names |-> {}]
NoMenu == [name |-> 0, path |-> NoPath]
Fresh == [cursor |-> 1, anchor |-> 1, marks |-> {}, filter |-> NoFilter, landOn |-> 0,
          menu |-> NoMenu, bgMenu |-> FALSE]
NoAsk == [op |-> "none", side |-> 0, source |-> "local", dir |-> NoPath, names |-> {}]

Children(src, p) == {n \in Names : Append(p, n) \in disk[src]}
Below(src, p) == {q \in disk[src] : IsAtOrUnder(q, p)}

-----------------------------------------------------------------------------
(* What a pane shows.                                                      *)

\* Mutant: a listing is shown whatever source it came from.
ShownUntagged(s) == nav[s].loaded

\* A listing is matched with the pane's source at every render.
Shown(s) == IF nav[s].loaded.source = panes[s].source THEN nav[s].loaded ELSE Nothing
Failed(s) == nav[s].failure = panes[s].source
Here(s) == IF Shown(s) = Nothing THEN panes[s].path ELSE Shown(s).path

Entries(s) == Rows(Shown(s).names, sel[s].filter, sort)
Selection(s) == SelectionOf(Entries(s), sel[s].marks, sel[s].cursor)
CursorName(s) == LET rows == Entries(s) IN
                 IF sel[s].cursor \in DOMAIN rows THEN rows[sel[s].cursor] ELSE 0

\* The effect on [listing.path]: selection starts over, on the folder left
\* by "up"; the rows it looks in are those of the filter still open.
ResetSelection(names, chosen) ==
  LET k == IndexOf(Rows(names, chosen.filter, sort), chosen.landOn)
      at == IF k = 0 THEN 1 ELSE k
  IN [Fresh EXCEPT !.cursor = at, !.anchor = at]

\* A pane that leaves its source shows nothing first, and that consumes the
\* folder to land on; where nothing was on show the effect does not run.
Settle(s, chosen) ==
  LET emptied == panes'[s].source # panes[s].source /\ Shown(s) # Nothing IN
  sel' = [sel EXCEPT ![s] =
            IF emptied THEN ResetSelection(Shown(s).names', [chosen EXCEPT !.landOn = 0])
            ELSE IF Shown(s).path' # Shown(s).path THEN ResetSelection(Shown(s).names', chosen)
            ELSE chosen]

-----------------------------------------------------------------------------
(* usePaneNav.                                                             *)

\* Mutant: while a folder is being read, no other read is started.
BeginLoadUnlessBusy(s, now, kept) ==
  /\ missed' = [missed EXCEPT ![s] = FALSE]
  /\ panes' = [panes EXCEPT ![s] = now]
  /\ loads' = IF loads[s] # {} THEN loads
              ELSE [loads EXCEPT ![s] = {[nonce |-> nav[s].nonce + 1, at |-> "sent",
                                         source |-> now.source, path |-> now.path,
                                         names |-> {}]}]
  /\ nav' = IF loads[s] # {} THEN nav ELSE [nav EXCEPT ![s] = [kept EXCEPT !.nonce = @ + 1]]
  /\ cache' = cache

\* The effect on [source, path, nonce]: a cached listing is shown at once,
\* the fresh one is on its way.  The effect on [source] before it drops the
\* history.
BeginLoad(s, now, kept) ==
  LET cached == [src |-> now.source, path |-> now.path]
      history == IF now.source = panes[s].source THEN kept
                 ELSE [kept EXCEPT !.stack = <<>>, !.idx = 0]
  IN /\ Cardinality(loads[s]) < MaxLoads
     /\ missed' = [missed EXCEPT ![s] = FALSE]     \* this read sees what was announced
     /\ panes' = [panes EXCEPT ![s] = now]
     /\ loads' = [loads EXCEPT ![s] = @ \cup {[nonce |-> nav[s].nonce + 1, at |-> "sent",
                                              source |-> now.source, path |-> now.path,
                                              names |-> {}]}]
     /\ nav' = [nav EXCEPT ![s] =
                  IF cache[cached] = Nothing THEN [history EXCEPT !.nonce = @ + 1]
                  ELSE [history EXCEPT !.nonce = @ + 1, !.loaded = cache[cached],
                                       !.failure = "none"]]
     /\ cache' = cache

\* setPane and setPath; the effect runs only when something differs.  The
\* record kept carries the history, and the folder an "up" is leaving.
SetPane(s, src, p, kept) ==
  LET now == [source |-> src, path |-> p] IN
  IF now = panes[s]
  THEN nav' = [nav EXCEPT ![s] = kept] /\ UNCHANGED <<panes, loads, cache, missed>>
  ELSE BeginLoad(s, now, kept)

Onward(s) == [nav[s] EXCEPT !.leaving = NoPath]
SetPath(s, p) == SetPane(s, panes[s].source, p, Onward(s))
ReloadPane(s) == BeginLoad(s, panes[s], nav[s])

\* The call reaches the source.
ReadDir(s) ==
  \E l \in loads[s] :
    LET answer == IF l.path \in disk[l.source] THEN "listed" ELSE "failed" IN
    /\ l.at = "sent"
    /\ \E at \in {answer} \cup (IF scene.fails THEN {"failed"} ELSE {}) :
         LET names == IF at = "listed" THEN Children(l.source, l.path) ELSE {} IN
         loads' = [loads EXCEPT ![s] = (@ \ {l}) \cup {[l EXCEPT !.at = at, !.names = names]}]
    /\ UNCHANGED <<scene, backVars, calls, panes, active, askVars, nav, cache, missed, sortVars,
                   sel, timer, dials, presses>>

\* Mutant: an overtaken answer lands too.
NeverStale(s, l) == FALSE

Stale(s, l) == l.nonce # nav[s].nonce

\* The oldest folder goes when there is one too many.
Capped(stack) == IF Len(stack) > HistoryCap THEN Tail(stack) ELSE stack

Remember(h, p) ==
  LET stack == Capped(Append(SubSeq(h.stack, 1, h.idx), p)) IN
  IF h.travelling THEN [h EXCEPT !.travelling = FALSE]
  ELSE IF h.idx > 0 /\ h.stack[h.idx] = p THEN h
  ELSE [h EXCEPT !.stack = stack, !.idx = Len(stack)]

Land(s) ==
  \E l \in loads[s] :
    LET listing == [source |-> l.source, path |-> l.path, names |-> l.names]
        seen == IF Stale(s, l) THEN nav[s]
                ELSE IF l.at = "failed" THEN [nav[s] EXCEPT !.failure = l.source]
                ELSE Remember([Onward(s) EXCEPT !.loaded = listing, !.failure = "none"], l.path)
    IN /\ l.at # "sent"
       /\ loads' = [loads EXCEPT ![s] = @ \ {l}]
       \* nonces are only compared: they start over when no load holds one
       /\ nav' = [nav EXCEPT ![s] = IF loads'[s] = {} THEN [seen EXCEPT !.nonce = 0] ELSE seen]
       /\ cache' = IF Stale(s, l) \/ l.at = "failed" THEN cache
                   ELSE [cache EXCEPT ![[src |-> l.source, path |-> l.path]] = listing]
       /\ UNCHANGED panes
       /\ Settle(s, sel[s])
       /\ UNCHANGED <<scene, backVars, calls, active, askVars, missed, sortVars, timer, dials,
                      presses>>

-----------------------------------------------------------------------------
(* fs:changed.                                                             *)

Announces(src, p) == wire' = Append(wire, [source |-> src, dir |-> p])

\* A transfer finishes: its file appears, and perhaps the folder it is in.
TransferLands(src, p) ==
  /\ changes < scene.changes /\ p \notin disk[src] /\ p # Root
  /\ \A q \in disk[src] : q # Root /\ BaseName(q) \in Files => ~IsAtOrUnder(p, q)
  /\ disk' = [disk EXCEPT ![src] = @ \cup {SubSeq(p, 1, k) : k \in 0..Len(p)}]
  /\ changes' = changes + 1
  /\ Announces(src, Parent(p))
  /\ UNCHANGED <<scene, calls, panes, active, askVars, navVars, sortVars, sel, timer, dials,
                 presses>>

Concerns(s, e) == e.source = panes[s].source /\ Here(s) # NoPath /\ IsAtOrUnder(e.dir, Here(s))

Misses(s, e) ==
  \/ Here(s) # panes[s].path
  \/ e.dir # panes[s].path /\ IsAtOrUnder(panes[s].path, e.dir)

\* Both panes hear it; each schedules one reload.  A pane whose folder it
\* touches while another one is on show, or from above, has missed it.
OnFsChanged ==
  LET e == Head(wire) IN
  /\ wire # <<>>
  /\ wire' = Tail(wire)
  /\ timer' = [s \in Sides |-> timer[s] \/ Concerns(s, e)]
  /\ missed' = [s \in Sides |-> missed[s] \/ (e.source = panes[s].source /\ Misses(s, e))]
  /\ UNCHANGED <<scene, disk, changes, calls, panes, active, askVars, loads, nav, cache, sortVars,
                 sel, dials, presses>>

TimerFires(s) ==
  /\ timer[s]
  /\ timer' = [timer EXCEPT ![s] = FALSE]
  /\ ReloadPane(s)
  /\ Settle(s, sel[s])
  /\ UNCHANGED <<scene, backVars, calls, active, askVars, sortVars, dials, presses>>

-----------------------------------------------------------------------------
(* Calls under way.  mkdir and rename carry the name to make; a download   *)
(* or an upload is done once the queue has taken it.                       *)

Call(op, src, dir, names, new, side) ==
  [op |-> op, source |-> src, dir |-> dir, names |-> names, new |-> new, side |-> side,
   at |-> "sent"]

Moved(src, from, to) ==
  (disk[src] \ Below(src, from)) \cup
    {to \o SubSeq(q, Len(from) + 1, Len(q)) : q \in Below(src, from)}

Done(c, next, ok) ==
  /\ disk' = [disk EXCEPT ![c.source] = next]
  /\ Announces(c.source, c.dir)
  /\ calls' = (calls \ {c}) \cup {[c EXCEPT !.at = IF ok THEN "ok" ELSE "failed"]}

Path(c, n) == Append(c.dir, n)
Targets(c) == {n \in c.names : Path(c, n) \in disk[c.source]}

\* Stops at the first entry that is missing or will not go.
DeleteEntries(c) ==
  /\ c.op = "delete"
  /\ \E gone \in IF Targets(c) = c.names /\ ~scene.fails THEN {c.names} ELSE SUBSET Targets(c) :
       Done(c, disk[c.source] \ UNION {Below(c.source, Path(c, n)) : n \in gone}, gone = c.names)

RenameEntry(c) ==
  /\ c.op = "rename"
  /\ IF Targets(c) = {} \/ Path(c, c.new) \in disk[c.source] THEN Done(c, disk[c.source], FALSE)
     ELSE \E n \in Targets(c) : Done(c, Moved(c.source, Path(c, n), Path(c, c.new)), TRUE)

MakeDir(c) ==
  LET new == Path(c, c.new)
      possible == c.dir \in disk[c.source] /\ new \notin disk[c.source]
  IN /\ c.op = "mkdir"
     /\ Done(c, disk[c.source] \cup (IF possible THEN {new} ELSE {}), possible)

EnqueueFiles(c) ==
  /\ c.op \in {"download", "upload"}
  /\ calls' = (calls \ {c}) \cup {[c EXCEPT !.at = "ok"]}
  /\ UNCHANGED <<disk, wire>>

\* Without a session nothing is tried and nothing announced.
NoSession(c) ==
  /\ scene.fails /\ (c.source # "local" \/ c.op = "upload")
  /\ calls' = (calls \ {c}) \cup {[c EXCEPT !.at = "failed"]}
  /\ UNCHANGED <<disk, wire>>

\* Whatever came of a file operation, the change is announced.
ExecCall ==
  \E c \in calls :
    /\ c.at = "sent"
    /\ DeleteEntries(c) \/ RenameEntry(c) \/ MakeDir(c) \/ EnqueueFiles(c) \/ NoSession(c)
    /\ UNCHANGED <<scene, changes, panes, active, askVars, navVars, sortVars, sel, timer, dials,
                   presses>>

\* The promise settles, wherever the pane is by now: a delete or a download
\* clears its marks, a file operation reloads it.
Reply ==
  \E c \in calls :
    LET s == c.side
        clears == c.at = "ok" /\ c.op \in {"delete", "download"}
        chosen == IF clears THEN [sel[s] EXCEPT !.marks = {}] ELSE sel[s]
    IN /\ c.at # "sent"
       /\ calls' = calls \ {c}
       /\ IF c.op \in {"delete", "rename", "mkdir"} THEN ReloadPane(s)
          ELSE UNCHANGED <<panes, navVars>>
       /\ Settle(s, chosen)
       /\ UNCHANGED <<scene, backVars, active, askVars, sortVars, timer, dials, presses>>

-----------------------------------------------------------------------------
(* Awaits that end in setPane.                                             *)

Dial(s, src, kind) == [side |-> s, source |-> src, from |-> panes[s].source, kind |-> kind]

\* switchSource, and Connect in the palette and in QuickConnect: the answer
\* is acted on whatever the pane shows by then.
SwitchArrives(d) ==
  /\ d.kind = "switch"
  /\ SetPane(d.side, d.source, Root, Onward(d.side))
  /\ Settle(d.side, sel[d.side])

\* reconnect: a pane that changed source meanwhile is left alone, any other
\* goes to the site's home and reloads.
Superseded(d) == panes[d.side].source # d.source

ReconnectArrives(d) ==
  /\ d.kind = "reconnect"
  /\ IF Superseded(d) THEN UNCHANGED <<panes, navVars, sel>>
     ELSE /\ BeginLoad(d.side, [source |-> d.source, path |-> Root], Onward(d.side))
          /\ Settle(d.side, sel[d.side])

\* Boot: localStart answers and both panes go to This PC.
BootArrives(d) ==
  /\ d.kind = "boot"
  /\ SetPane(d.side, "local", Root, Onward(d.side))
  /\ Settle(d.side, sel[d.side])

DialArrives ==
  \E d \in dials :
    /\ dials' = dials \ {d}
    /\ \/ SwitchArrives(d)
       \/ ReconnectArrives(d)
       \/ BootArrives(d)
       \/ scene.fails /\ d.kind # "boot" /\ UNCHANGED <<panes, navVars, sel>>
    /\ UNCHANGED <<scene, backVars, calls, active, askVars, sortVars, timer, presses>>

-----------------------------------------------------------------------------
(* The stored sort.                                                        *)

\* getSettings answers, then hydratePrefs and the panes' listener run.
ReadPrefs ==
  /\ hydration.at = "reading"
  /\ hydration' = [hydration EXCEPT !.at = "read"]
  /\ UNCHANGED <<scene, backVars, calls, panes, active, askVars, navVars, sort, mirror, touched,
                 sel, timer, dials, presses>>

\* Adopt the stored sort, unless the user already clicked a heading.
AdoptStored == sort' = IF touched THEN sort ELSE mirror'

\* Mutant: the stored sort wins over a click.
HydratePrefsOver ==
  /\ hydration.at = "read"
  /\ hydration' = [hydration EXCEPT !.at = "done"]
  /\ mirror' = hydration.stored
  /\ AdoptStored
  /\ UNCHANGED <<scene, backVars, calls, panes, active, askVars, navVars, touched, sel, timer,
                 dials, presses>>

HydratePrefs ==
  /\ hydration.at = "read"
  /\ hydration' = [hydration EXCEPT !.at = "done"]
  /\ mirror' = IF touched THEN mirror ELSE hydration.stored
  /\ AdoptStored
  /\ UNCHANGED <<scene, backVars, calls, panes, active, askVars, navVars, touched, sel, timer,
                 dials, presses>>

-----------------------------------------------------------------------------
(* The user.  Pane keys reach the active pane; the mouse makes it active.  *)
(* Below, what each key or click does; at the end, where it can be given:  *)
(* the list and the pointer need the list on screen and no question before *)
(* it, the window and the palette hear their keys also over a question.    *)

UserFrame == UNCHANGED <<scene, backVars, timer>>
NoNav == UNCHANGED <<panes, navVars>>
NoSort == UNCHANGED sortVars
NoAsking == UNCHANGED askVars

Can(b) == b \in scene.buttons
Listening(s) == confirm = NoAsk /\ prompt[s] = NoAsk
Listed(s) == Listening(s) /\ ~Failed(s)

Selects(s, chosen) ==
  /\ sel' = [sel EXCEPT ![s] = chosen]
  /\ NoNav /\ NoSort /\ NoAsking /\ UNCHANGED <<calls, dials>>

\* selectAt: plain, Ctrl, Shift, Ctrl+Shift.
SelectAt(s, k, ctrl, shift) ==
  LET rows == Entries(s)
      old == sel[s]
      range == Span(rows, old.anchor, k)
      n == rows[k]
      marks == IF shift THEN (IF ctrl THEN old.marks \cup range ELSE range)
               ELSE IF ~ctrl THEN {n}
               ELSE IF n \in old.marks THEN old.marks \ {n} ELSE old.marks \cup {n}
  IN /\ Can("select") /\ k \in DOMAIN rows
     /\ Selects(s, [old EXCEPT !.cursor = k, !.marks = marks, !.menu = NoMenu, !.bgMenu = FALSE,
                               !.anchor = IF shift THEN @ ELSE k])

\* moveTo: arrows, Home, End; with Shift the marks become the range.
MoveTo(s, k, extend) ==
  LET rows == Entries(s)
      at == Clamp(k, rows)
  IN /\ Can("move") /\ rows # <<>>
     /\ Selects(s, [sel[s] EXCEPT !.cursor = at, !.anchor = IF extend THEN @ ELSE at,
                                  !.marks = IF extend THEN Span(rows, sel[s].anchor, at) ELSE @])

\* Type-ahead: on to a row whose name begins so; no row is hidden.
JumpTo(s, k) ==
  /\ Can("move") /\ k \in DOMAIN Entries(s)
  /\ Selects(s, [sel[s] EXCEPT !.cursor = k, !.anchor = k])

\* Space; Insert also steps on.
ToggleMark(s, step) ==
  LET n == CursorName(s)
      marks == IF n \in sel[s].marks THEN sel[s].marks \ {n} ELSE sel[s].marks \cup {n}
      at == Clamp(sel[s].cursor + 1, Entries(s))
  IN /\ Can("select") /\ n # 0
     /\ Selects(s, IF step THEN [sel[s] EXCEPT !.marks = marks, !.cursor = at, !.anchor = at]
                   ELSE [sel[s] EXCEPT !.marks = marks])

\* Invert, select all, select none.
MarkMany(s) ==
  LET all == ToSet(Entries(s)) IN
  /\ Can("select")
  /\ \E marks \in {all \ sel[s].marks, all, {}} : Selects(s, [sel[s] EXCEPT !.marks = marks])

\* What is typed into the filter; Escape passes everything again.
SetFilter(s, pass) ==
  /\ Can("filter")
  /\ Selects(s, [sel[s] EXCEPT !.filter = pass])

OpenMenu(s, k) ==
  LET rows == Entries(s) IN
  /\ Can("menu") /\ k \in DOMAIN rows
  /\ Selects(s, [sel[s] EXCEPT !.cursor = k,
                               !.menu = [name |-> rows[k], path |-> Shown(s).path],
                               !.bgMenu = FALSE,
                               !.marks = IF @ # {} /\ rows[k] \notin @ THEN {rows[k]} ELSE @])

\* The menu of the space below the rows.
OpenBgMenu(s) ==
  /\ Can("menu") /\ Selects(s, [sel[s] EXCEPT !.menu = NoMenu, !.bgMenu = TRUE])

(* --- navigation --- *)

Goes(s, chosen) ==
  /\ Settle(s, chosen)
  /\ NoSort /\ NoAsking /\ UNCHANGED <<calls, dials>>

\* A folder opened, a crumb, the tree, a recent or a bookmarked folder.
Navigate(s, p) ==
  /\ Can("navigate") /\ panes[s].path # NoPath
  /\ SetPath(s, p) /\ Goes(s, sel[s])

\* A Windows path typed into the path bar of a pane that shows a site.
NavigateTyped(s) ==
  /\ Can("typed") /\ panes[s].source # "local"
  /\ BeginLoad(s, [source |-> "local", path |-> Root], Onward(s)) /\ Goes(s, sel[s])

\* Mutant: the filter stays until the parent's listing is on screen.
GoUpFiltered(s) ==
  LET here == Here(s)
      chosen == [sel[s] EXCEPT !.landOn = IF here \in {Root, NoPath} THEN 0 ELSE BaseName(here)]
  IN /\ Can("up")
     /\ IF Shown(s) # Nothing /\ here # Root
        THEN SetPane(s, panes[s].source, Parent(here), [nav[s] EXCEPT !.leaving = here])
        ELSE NoNav
     /\ Goes(s, chosen)

GoUp(s) ==
  LET here == Here(s)
      chosen == [sel[s] EXCEPT !.landOn = IF here \in {Root, NoPath} THEN 0 ELSE BaseName(here),
                               !.filter = NoFilter]
  IN /\ Can("up")
     /\ IF Shown(s) # Nothing /\ here # Root
        THEN SetPane(s, panes[s].source, Parent(here), [nav[s] EXCEPT !.leaving = here])
        ELSE NoNav
     /\ Goes(s, chosen)

Travel(s, delta) ==
  LET h == nav[s] IN
  /\ Can("travel")
  /\ h.idx + delta \in DOMAIN h.stack
  /\ SetPane(s, panes[s].source, h.stack[h.idx + delta],
             [Onward(s) EXCEPT !.idx = @ + delta, !.travelling = TRUE])
  /\ Goes(s, sel[s])

Reload(s) ==
  /\ Can("reload") /\ panes[s].path # NoPath
  /\ ReloadPane(s) /\ Goes(s, sel[s])

(* --- sources --- *)

Awaits(s, src, kind) ==
  /\ dials' = dials \cup {Dial(s, src, kind)}
  /\ NoNav /\ NoSort /\ NoAsking /\ UNCHANGED <<calls, sel>>

SwitchSource(s, src) == Can("switch") /\ Awaits(s, src, "switch")

Reconnect(s) ==
  /\ Can("reconnect") /\ Failed(s) /\ panes[s].source # "local"
  /\ Awaits(s, panes[s].source, "reconnect")

(* --- the headings --- *)

\* The cursor of this pane stays on its row; the sort is both panes'.
SortHeader(s, k) ==
  LET next == ToggleSort(sort, k)
      at == IndexOf(Rows(Shown(s).names, sel[s].filter, next), CursorName(s))
  IN /\ Can("sort")
     /\ sort' = next /\ mirror' = next /\ touched' = TRUE
     /\ sel' = IF at = 0 THEN sel ELSE [sel EXCEPT ![s].cursor = at, ![s].anchor = at]
     /\ NoNav /\ NoAsking /\ UNCHANGED <<hydration, calls, dials>>

(* --- operations on the selection --- *)

Asks(s) == NoNav /\ NoSort /\ UNCHANGED <<dials, sel>>

Enqueue(s, names) ==
  /\ Can("enqueue") /\ Shown(s) # Nothing /\ names # {}
  /\ panes[s].source = "local" <=> panes[Other(s)].source # "local"
  /\ calls' = calls \cup {Call(IF panes[s].source = "local" THEN "upload" ELSE "download",
                               panes[s].source, Shown(s).path, names, 0, s)}
  /\ Asks(s) /\ NoAsking

DoDelete(s, names) ==
  /\ Can("delete") /\ names # {}
  /\ IF suppressed
     THEN calls' = calls \cup {Call("delete", panes[s].source, Here(s), names, 0, s)} /\ NoAsking
     ELSE /\ confirm' = [op |-> "delete", side |-> s, source |-> panes[s].source,
                         dir |-> Here(s), names |-> names]
          /\ UNCHANGED <<calls, suppressed, prompt>>
  /\ Asks(s)

\* F2 and F7 raise the pane's own prompt.
Prompts(s, op, names) ==
  /\ prompt' = [prompt EXCEPT ![s] = [op |-> op, side |-> s, source |-> panes[s].source,
                                      dir |-> Here(s), names |-> names]]
  /\ UNCHANGED <<calls, confirm, suppressed>> /\ Asks(s)

DoRename(s, n) == Can("rename") /\ Prompts(s, "rename", {n})
DoMkdir(s) == Can("mkdir") /\ panes[s].path # NoPath /\ Prompts(s, "mkdir", {})

\* The menu acts on the marks when its row is one of them.
MenuTargets(s) ==
  LET n == sel[s].menu.name IN
  IF n \in sel[s].marks THEN ToSet(Entries(s)) \cap sel[s].marks ELSE {n}

\* The question carries what it was asked about, whatever the pane shows now.
AcceptConfirm(s, silence) ==
  /\ confirm # NoAsk /\ confirm.side = s
  /\ suppressed' = (suppressed \/ silence)
  /\ calls' = calls \cup {Call("delete", confirm.source, confirm.dir, confirm.names, 0, s)}
  /\ confirm' = NoAsk /\ prompt' = prompt /\ Asks(s)

CloseConfirm(s) ==
  /\ confirm # NoAsk /\ confirm.side = s
  /\ confirm' = NoAsk /\ UNCHANGED <<suppressed, prompt, calls>> /\ Asks(s)

AcceptPrompt(s, new) ==
  /\ prompt[s] # NoAsk /\ new \notin prompt[s].names
  /\ prompt[s].op = "mkdir" => new \in Folders
  /\ \A n \in prompt[s].names : n \in Folders <=> new \in Folders
  /\ calls' = calls \cup {Call(prompt[s].op, prompt[s].source, prompt[s].dir, prompt[s].names,
                               new, s)}
  /\ prompt' = [prompt EXCEPT ![s] = NoAsk] /\ UNCHANGED <<confirm, suppressed>> /\ Asks(s)

ClosePrompt(s) ==
  /\ prompt[s] # NoAsk
  /\ prompt' = [prompt EXCEPT ![s] = NoAsk] /\ UNCHANGED <<confirm, suppressed, calls>> /\ Asks(s)

(* --- where the user can do it --- *)

\* Enter and double click: into a folder, or the file is queued.
Open(s, n) ==
  \/ /\ n \in Folders /\ Append(Here(s), n) \in scene.paths
     /\ Navigate(s, Append(Here(s), n))
  \/ n \in Files /\ Enqueue(s, {n})

\* The keys of the list; of a list without rows, only the ways out.
OnListKeyDown(s) ==
  LET rows == Entries(s)
      at == sel[s].cursor
  IN /\ Listed(s)
     /\ \/ SetFilter(s, NoFilter) \/ GoUp(s)
        \/ \E k \in {at - 1, at + 1, 1, Len(rows)}, extend \in BOOLEAN : MoveTo(s, k, extend)
        \/ \E k \in DOMAIN rows : JumpTo(s, k)
        \/ \E step \in BOOLEAN : ToggleMark(s, step)
        \/ rows # <<>> /\ (MarkMany(s) \/ \E k \in SortKey : SortHeader(s, k))
        \/ at \in DOMAIN rows /\ Open(s, rows[at])

\* The rows under the pointer, and the space below them.
RowPointer(s) ==
  \/ \E k \in DOMAIN Entries(s) :
       \/ \E ctrl, shift \in BOOLEAN : SelectAt(s, k, ctrl, shift)
       \/ Open(s, Entries(s)[k]) \/ OpenMenu(s, k)
  \/ Can("select") /\ Entries(s) # <<>> /\ Selects(s, [sel[s] EXCEPT !.marks = {}])
  \/ OpenBgMenu(s)

\* The menu of a row is built anew at every render, for the entry it was
\* opened on.
RowMenu(s) ==
  LET n == sel[s].menu.name IN
  /\ sel[s].menu # NoMenu
  /\ \/ Enqueue(s, MenuTargets(s)) \/ DoDelete(s, MenuTargets(s))
     \/ n \in Folders /\ Open(s, n)
     \/ Cardinality(MenuTargets(s)) = 1 /\ DoRename(s, n)
     \/ DoMkdir(s) \/ Reload(s) \/ \E k \in SortKey : SortHeader(s, k)

BgMenu(s) ==
  /\ sel[s].bgMenu
  /\ DoMkdir(s) \/ Reload(s) \/ MarkMany(s) \/ \E k \in SortKey : SortHeader(s, k)

\* Recent folders, bookmarks and the tree lead anywhere in the source.
PathMenu(s) == \E p \in scene.paths : Navigate(s, p)

Headings(s) == \E k \in SortKey : SortHeader(s, k)

FilterStrip(s) == \E pass \in {NoFilter, Files} : SetFilter(s, pass)

\* Sources, back, forward, up, refresh, and the path bar with its crumbs.
PaneBar(s) ==
  \/ \E src \in Sources : SwitchSource(s, src)
  \/ \E delta \in {-1, 1} : Travel(s, delta)
  \/ Shown(s) # Nothing /\ Here(s) # Root /\ GoUp(s)
  \/ Reload(s) \/ NavigateTyped(s)
  \/ \E k \in 0..Len(Here(s)) : Navigate(s, SubSeq(Here(s), 1, k))

ErrorPanel(s) == Failed(s) /\ (Reconnect(s) \/ Reload(s) \/ GoUp(s))

\* Keys the window hears for the active pane.
Shortcuts(s) ==
  \/ \E delta \in {-1, 1} : Travel(s, delta)
  \/ GoUp(s) \/ Reload(s) \/ Enqueue(s, Selection(s)) \/ DoMkdir(s) \/ DoDelete(s, Selection(s))
  \/ \E n \in Names : Selection(s) = {n} /\ DoRename(s, n)

\* Commands of the palette, which opens over everything.
PaneCommands(s) ==
  \/ GoUp(s) \/ Reload(s) \/ DoMkdir(s) \/ DoDelete(s, Selection(s)) \/ MarkMany(s)
  \/ \E n \in Names : Selection(s) = {n} /\ DoRename(s, n)
  \/ \E src \in Sources : SwitchSource(s, src)

Dialogs(s) ==
  \/ CloseConfirm(s) \/ ClosePrompt(s)
  \/ \E silence \in BOOLEAN : AcceptConfirm(s, silence)
  \/ \E new \in Names : AcceptPrompt(s, new)

Press(s) ==
  \/ OnListKeyDown(s) \/ Shortcuts(s) \/ PaneCommands(s) \/ Dialogs(s)
  \/ Listening(s) /\ (PaneBar(s) \/ FilterStrip(s) \/ PathMenu(s) \/ ErrorPanel(s))
  \/ Listening(s) /\ (RowMenu(s) \/ BgMenu(s))     \* a menu outlasts the list it opened on
  \/ Listed(s) /\ (RowPointer(s) \/ Headings(s))

-----------------------------------------------------------------------------

\* At boot both panes are empty, and the start folder and the preferences
\* are being asked for; otherwise both panes rest on the root of a source.
Launch ==
  /\ panes = [s \in Sides |-> [source |-> "local", path |-> NoPath]]
  /\ nav = [s \in Sides |-> [loaded |-> Nothing, failure |-> "none", nonce |-> 0, stack |-> <<>>,
                            idx |-> 0, travelling |-> FALSE, leaving |-> NoPath]]
  /\ cache = [k \in [src : Sources, path : scene.paths] |-> Nothing]
  /\ dials = {Dial(s, "local", "boot") : s \in Sides}
  /\ \E stored \in {DefaultSort, [key |-> "size", desc |-> TRUE]} :
       hydration = [at |-> "reading", stored |-> stored]

AtRest ==
  LET Top(src) == [source |-> src, path |-> Root, names |-> Children(src, Root)] IN
  /\ panes = [s \in Sides |-> [source |-> scene.at[s], path |-> Root]]
  /\ nav = [s \in Sides |-> [loaded |-> Top(scene.at[s]), failure |-> "none", nonce |-> 0,
                            stack |-> <<Root>>, idx |-> 1, travelling |-> FALSE,
                            leaving |-> NoPath]]
  /\ cache = [k \in [src : Sources, path : scene.paths] |->
                IF k.path = Root /\ k.src \in {scene.at[s] : s \in Sides} THEN Top(k.src)
                ELSE Nothing]
  /\ dials = {} /\ hydration = [at |-> "done", stored |-> DefaultSort]

Init ==
  /\ scene \in Scenes
  /\ disk = scene.disk /\ changes = 0 /\ wire = <<>> /\ calls = {}
  /\ active = 0 /\ confirm = NoAsk /\ suppressed = FALSE /\ prompt = [s \in Sides |-> NoAsk]
  /\ loads = [s \in Sides |-> {}] /\ missed = [s \in Sides |-> FALSE]
  /\ sort = DefaultSort /\ mirror = DefaultSort /\ touched = FALSE
  /\ sel = [s \in Sides |-> Fresh] /\ timer = [s \in Sides |-> FALSE]
  /\ presses = 0
  /\ IF scene.launch THEN Launch ELSE AtRest

Backend ==
  \/ \E src \in Sources, p \in scene.lands : TransferLands(src, p)
  \/ ExecCall

Frontend ==
  \/ \E s \in Sides : ReadDir(s) \/ Land(s) \/ TimerFires(s)
  \/ OnFsChanged \/ Reply \/ DialArrives \/ ReadPrefs \/ HydratePrefs

User ==
  /\ presses < scene.presses /\ presses' = presses + 1
  /\ \E s \in scene.sides : active' = s /\ Press(s)
  /\ UserFrame

Next == Backend \/ Frontend \/ User

\* A list call answers, its promise settles, and a timer fires.
Fairness == \A s \in Sides : WF_vars(ReadDir(s)) /\ WF_vars(Land(s)) /\ WF_vars(TimerFires(s))

Spec == Init /\ [][Next]_vars /\ Fairness
-----------------------------------------------------------------------------
(* Properties.                                                             *)

Listing == [source : Sources \cup {"none"}, path : Seq(Nat), names : SUBSET Names]
Ask == [op : {"none", "delete", "rename", "mkdir"}, side : Sides, source : Sources,
        dir : Seq(Nat), names : SUBSET Names]

\* Types of the panes' state; no cursor is ever left of the first row.
TypeOK ==
  /\ \A s \in Sides :
       /\ panes[s].source \in Sources /\ panes[s].path \in Seq(Nat)
       /\ nav[s].loaded \in Listing /\ nav[s].failure \in Sources \cup {"none"}
       /\ nav[s].idx \in 0..Len(nav[s].stack) /\ nav[s].nonce \in Nat
       /\ \A l \in loads[s] : l.nonce \in 1..nav[s].nonce /\ l.source \in Sources
       /\ sel[s].cursor \in Nat \ {0} /\ sel[s].anchor \in Nat \ {0}
       /\ sel[s].marks \subseteq Names /\ sel[s].filter \subseteq Names
       /\ prompt[s] \in Ask
  /\ confirm \in Ask /\ sort \in SortState /\ mirror \in SortState
  /\ \A src \in Sources : Root \in disk[src]
  /\ timer \in [Sides -> BOOLEAN] /\ missed \in [Sides -> BOOLEAN]

Quiet == wire = <<>> /\ calls = {} /\ \A s \in Sides : loads[s] = {} /\ ~timer[s]

\* When nothing is under way a pane shows its folder as it is: no change
\* announced while its listing was being read, or while a reload was already
\* scheduled, is lost, and no older reading replaces a newer one; except for
\* an event that reached the pane between two folders, and one from above
\* (FilePane.tsx:427-459, usePaneNav.ts:66-106).
ListingCatchesUp ==
  Quiet =>
    \A s \in Sides :
      ~missed[s] /\ ~Failed(s) /\ panes[s].path \in disk[panes[s].source] =>
        Shown(s).path = panes[s].path /\ Shown(s).names = Children(panes[s].source, panes[s].path)

\* Rows of the listing a pane holds, none the filter leaves out; the entry of
\* an open menu is one that was listed.
Holds(s, src, dir, names) ==
  /\ panes[s].source = src /\ nav[s].loaded.source = src /\ nav[s].loaded.path = dir
  /\ names \subseteq ToSet(Entries(s)) \cup (IF sel[s].menu.path = dir THEN {sel[s].menu.name}
                                            ELSE {})

\* What the keys and a menu left open act on.
Picked(s) == {Selection(s), MenuTargets(s), {sel[s].menu.name}}

\* An error of the source takes the place of the list (FilePane.tsx:1090); the
\* rows it covers can still be picked.
OnDisplay(s, src, dir, names) == ~Failed(s) /\ Holds(s, src, dir, names)
UnderError(s, src, dir, names) ==
  Failed(s) /\ Holds(s, src, dir, names) /\ names \in Picked(s)

\* A delete, a rename, an upload and a download name rows of the listing the
\* pane holds, in its folder, at the source that gave it and the pane is on:
\* rows on display, unless an error covers them.  Then F2, F5, F8, Delete, the
\* palette and a menu left open act on the rows picked under the error, and on
\* no others.  A question once asked keeps its subject, whatever the pane
\* goes on to show
\* (FilePane.tsx:164-168, :489-502, :600-667, :1090, usePaneNav.ts:40-50).
ActsOnListedRows ==
  [][LET Named(s, src, dir, names) ==
           OnDisplay(s, src, dir, names) \/ UnderError(s, src, dir, names)
     IN /\ confirm' \notin {confirm, NoAsk} =>
             Named(confirm'.side, confirm'.source, confirm'.dir, confirm'.names)
        /\ \A s \in Sides : prompt'[s] \notin {prompt[s], NoAsk} /\ prompt'[s].op = "rename" =>
             Named(s, prompt'[s].source, prompt'[s].dir, prompt'[s].names)
        /\ \A c \in calls' \ calls : c.at = "sent" =>
             LET SameAs(q) == <<c.op, c.source, c.dir, c.names>> = <<q.op, q.source, q.dir, q.names>>
             IN \/ SameAs(confirm) \/ SameAs(prompt[c.side])
                \/ /\ c.op = "delete" => suppressed
                   /\ Named(c.side, c.source, c.dir, c.names)]_vars

\* "Going up lands the cursor on the folder you just left" (ux-spec.md:107),
\* whether the parent comes from the cache or over the wire and whatever
\* filter was open; not when a filter is opened, or the source changed, while
\* the parent loads.
UpLandsOnFolderLeft ==
  [][\A s \in Sides :
       LET left == IF nav'[s].leaving # NoPath THEN nav'[s].leaving ELSE nav[s].leaving
           arrives == left # NoPath /\ Shown(s).path' # Shown(s).path
                      /\ panes'[s].source = panes[s].source
                      /\ Shown(s).path' = Parent(left) /\ BaseName(left) \in Shown(s).names'
           later == panes'[s] = panes[s]       \* the parent came over the wire
       IN arrives /\ (later => sel[s].filter = NoFilter)
            => CursorName(s)' = BaseName(left)]_vars

\* A sort the user chose before the stored preferences arrived is the one
\* that is kept and written back (usePaneSort.ts:40-58, prefs.ts:99-127).
PrefIsTheUsers == touched => mirror = sort

\* Every pane ends on its folder or on the error of its source, however its
\* reads were overtaken (usePaneNav.ts:66-106).
PaneSettles ==
  <>[](\A s \in Sides : \/ Shown(s).path = panes[s].path \/ Failed(s))
=============================================================================
