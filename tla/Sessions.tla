------------------------------ MODULE Sessions ------------------------------
(***************************************************************************)
(* Saved sites and their browse connections: the site and session calls of *)
(* app.go, the prompts of events/prompts.go and the pins of hostkeys, with *)
(* the frontend that drives and mirrors them (QuickConnect, CommandPalette,*)
(* HostKeyDialog, the subscriptions of App.tsx) and the folder tree that   *)
(* lists over the session (DirTree, treeCache).                            *)
(*                                                                         *)
(* ConnectSite runs concurrently with itself, with DeleteSite, with the    *)
(* keepAlive goroutine of every session installed so far and with listings *)
(* that may evict the session they used.  A step ends where the code       *)
(* unlocks, waits, or touches the database; what a goroutine emits after   *)
(* an unlock is a step of its own.  Numbers of connections and prompts are *)
(* reused once nothing holds them.                                         *)
(***************************************************************************)
EXTENDS Integers, FiniteSets, Sequences

CONSTANTS
  SiteIds,      \* row ids, recycled by SQLite
  Keys,         \* host keys a server may present
  Connects,     \* ConnectSite calls that may overlap
  Panes,        \* sidebars
  Scenes,       \* the instances checked; every behaviour belongs to one
  MaxLists,     \* bound: tree listings in flight
  MaxWire       \* bound: events under way

ASSUME SiteAssumption == SiteIds \subseteq Nat \ {0} /\ 0 \notin Keys
ASSUME FiniteAssumption == IsFiniteSet(Connects) /\ IsFiniteSet(Panes)
ASSUME SceneAssumption ==
  \A sc \in Scenes :
    /\ sc.presses \in Nat /\ sc.fails \in BOOLEAN /\ sc.deaths \in BOOLEAN
    /\ sc.sites \subseteq SiteIds /\ sc.up \subseteq sc.sites /\ sc.keys \subseteq Keys
    /\ IsFiniteSet(sc.sites) /\ sc.keys # {}
    /\ "tree" \in sc.buttons => sc.up # {}

VARIABLES
  scene,
  \* --- database ---
  sites,        \* ids of saved sites
  queued,       \* sites with transfers in the queue
  pins,         \* the pinned key of each site (0: none)
  \* --- app.go ---
  sessions,     \* the registered browse connection of each site (0: none)
  clients,      \* connections that are open
  connects,     \* ConnectSite calls
  keepers,      \* keepAlive goroutines
  call,         \* a DisconnectSite, DeleteSite or SaveSite call
  waiting,      \* prompts the broker is blocked on
  wire,         \* events emitted and not yet delivered
  \* --- frontend ---
  listed,       \* the sites on display
  conn,         \* connStates
  dialogs,      \* HostKeyDialog's queue
  sidebar,      \* the site each pane's tree shows (0: closed)
  children,     \* the remembered children of a site's tree
  failed,       \* sites whose tree could not be listed
  expanded,     \* branches open, per pane
  lists,        \* listings of the tree
  \* --- history ---
  trusted,      \* keys the user has seen and trusted, by site
  presses

dbVars      == <<sites, queued, pins>>
sessionVars == <<sessions, clients>>
promptVars  == <<waiting, dialogs, trusted>>
treeVars    == <<sidebar, children, failed, expanded, lists>>
screenVars  == <<listed, conn>>
vars == <<scene, dbVars, sessionVars, connects, keepers, call, wire, promptVars, screenVars,
          treeVars, presses>>

Idle == [site |-> 0, at |-> "idle", client |-> 0, key |-> 0, prompt |-> 0]
NoCall == [op |-> "none", site |-> 0, at |-> "idle"]

Open(c) == \E k \in clients : k.c = c
Up(c) == \E k \in clients : k.c = c /\ k.up

\* Numbers nothing refers to any more.
Fresh(used) == CHOOSE m \in 1..(Cardinality(used) + 1) : m \notin used
NewClient == Fresh({k.c : k \in clients} \cup {k.c : k \in keepers} \cup {l.c : l \in lists}
                   \cup {connects[n].client : n \in Connects})
NewPrompt == Fresh({w.prompt : w \in waiting} \cup {dialogs[j].prompt : j \in DOMAIN dialogs}
                   \cup {wire[j].prompt : j \in DOMAIN wire})

Emit(kind, id, val, prompt) ==
  /\ Len(wire) < MaxWire
  /\ wire' = Append(wire, [kind |-> kind, site |-> id, val |-> val, prompt |-> prompt])
EmitConnState(id, state) == Emit("connstate", id, state, 0)

\* Unregister and close.
Unregister(id, c) ==
  /\ sessions' = [sessions EXCEPT ![id] = 0]
  /\ clients' = {k \in clients : k.c # c}

\* Mutant: whichever session is registered goes.
DropAny(id, c, dropped, gone) ==
  IF sessions[id] = 0 THEN gone /\ UNCHANGED sessionVars
  ELSE Unregister(id, sessions[id]) /\ dropped

\* dropSession: only while it is still the registered one.  What the caller
\* does next depends on whether there is something to announce.
DropSession(id, c, dropped, gone) ==
  IF sessions[id] # c THEN gone /\ UNCHANGED sessionVars
  ELSE Unregister(id, c) /\ dropped
-----------------------------------------------------------------------------
(* ConnectSite.                                                            *)

To(n, at) == connects' = [connects EXCEPT ![n].at = at]

BackFrame == UNCHANGED <<scene, dbVars, promptVars, screenVars, treeVars, presses, call>>

Look(n) ==
  LET id == connects[n].site IN
  /\ connects[n].at = "look"
  /\ connects' = [connects EXCEPT ![n].at = IF sessions[id] = 0 THEN "load" ELSE "probe",
                                  ![n].client = sessions[id]]
  /\ BackFrame /\ UNCHANGED <<sessionVars, keepers, wire>>

\* A dead session is dropped, or somebody else has done so.
Probe(n) ==
  LET r == connects[n] IN
  /\ r.at = "probe"
  /\ IF Up(r.client) THEN connects' = [connects EXCEPT ![n] = Idle] /\ UNCHANGED sessionVars
     ELSE DropSession(r.site, r.client, To(n, "dropped"), To(n, "load"))
  /\ BackFrame /\ UNCHANGED <<keepers, wire>>

SayDropped(n) ==
  /\ connects[n].at = "dropped"
  /\ EmitConnState(connects[n].site, "disconnected")
  /\ To(n, "load")
  /\ BackFrame /\ UNCHANGED <<sessionVars, keepers>>

\* The site is read, and the dial announced.
Load(n) ==
  LET id == connects[n].site IN
  /\ connects[n].at = "load"
  /\ IF id \notin sites THEN connects' = [connects EXCEPT ![n] = Idle] /\ wire' = wire
     ELSE /\ connects' = [connects EXCEPT ![n].at = "dial", ![n].client = 0]
          /\ EmitConnState(id, "connecting")
  /\ BackFrame /\ UNCHANGED <<sessionVars, keepers>>

\* Logging in once the key is accepted: sftpfast.Dial returns a client.
LogIn(n) ==
  /\ connects[n].at = "login"
  /\ clients' = clients \cup {[c |-> NewClient, site |-> connects[n].site, up |-> TRUE]}
  /\ connects' = [connects EXCEPT ![n].at = "install", ![n].client = NewClient]
  /\ BackFrame /\ UNCHANGED <<sessions, keepers, wire>>

\* The server presents a key; hostkeys.Callback looks for a pin.
Present(n, k) ==
  LET id == connects[n].site IN
  /\ connects[n].at = "dial" /\ k \in scene.keys
  /\ \/ /\ pins[id] = k
        /\ To(n, "login")
        /\ UNCHANGED <<waiting, wire>>
     \/ /\ pins[id] \notin {0, k}
        /\ To(n, "error")
        /\ UNCHANGED <<waiting, wire>>
     \/ /\ pins[id] = 0
        /\ Emit("hostkey", id, k, NewPrompt)
        /\ waiting' = waiting \cup {[prompt |-> NewPrompt, answer |-> "none"]}
        /\ connects' = [connects EXCEPT ![n].at = "asking", ![n].key = k, ![n].prompt = NewPrompt]
  /\ UNCHANGED <<scene, dbVars, sessionVars, keepers, call, dialogs, trusted, screenVars, treeVars,
                 presses>>

\* No route, wrong password, a server that gives up.
DialFails(n) ==
  /\ scene.fails /\ connects[n].at \in {"dial", "login"}
  /\ To(n, "error")
  /\ BackFrame /\ UNCHANGED <<sessionVars, keepers, wire>>

Forget(n) == waiting' = {w \in waiting : w.prompt # connects[n].prompt}
Ends(n, at) == connects' = [connects EXCEPT ![n].at = at, ![n].prompt = 0]

\* Ask returns: with the answer, or with the timeout, which wins even over
\* an answer given at the last moment.
AskReturns(n) ==
  /\ connects[n].at = "asking"
  /\ \E w \in waiting :
       /\ w.prompt = connects[n].prompt /\ w.answer # "none"
       /\ Ends(n, IF w.answer = "trust" THEN "pin" ELSE "error")
  /\ Forget(n)
  /\ UNCHANGED <<scene, dbVars, sessionVars, keepers, call, wire, dialogs, trusted, screenVars,
                 treeVars, presses>>

\* Mutant: a prompt nobody answers counts as accepted.
AskTrusts(n) ==
  /\ connects[n].at = "asking"
  /\ Ends(n, "pin")
  /\ Forget(n)
  /\ UNCHANGED <<scene, dbVars, sessionVars, keepers, call, wire, dialogs, trusted, screenVars,
                 treeVars, presses>>

AskTimesOut(n) ==
  /\ connects[n].at = "asking"
  /\ Ends(n, "error")
  /\ Forget(n)
  /\ UNCHANGED <<scene, dbVars, sessionVars, keepers, call, wire, dialogs, trusted, screenVars,
                 treeVars, presses>>

\* INSERT: one pin per site, and none without its site.
Pin(n) ==
  LET r == connects[n] IN
  /\ r.at = "pin"
  /\ IF pins[r.site] # 0 \/ r.site \notin sites
     THEN To(n, "error") /\ pins' = pins
     ELSE pins' = [pins EXCEPT ![r.site] = r.key] /\ To(n, "login")
  /\ UNCHANGED <<scene, sites, queued, sessionVars, keepers, call, wire, promptVars, screenVars,
                 treeVars, presses>>

\* Mutant: the later of two dials replaces the earlier.
InstallOver(n) ==
  LET r == connects[n] IN
  /\ r.at = "install"
  /\ sessions' = [sessions EXCEPT ![r.site] = r.client]
  /\ keepers' = keepers \cup {[c |-> r.client, site |-> r.site, at |-> "sleeping"]}
  /\ To(n, "connected")
  /\ clients' = clients
  /\ BackFrame /\ wire' = wire

\* Install or discard; the loser of two dials closes its own connection.
Install(n) ==
  LET r == connects[n] IN
  /\ r.at = "install"
  /\ IF sessions[r.site] # 0
     THEN /\ clients' = {k \in clients : k.c # r.client}
          /\ connects' = [connects EXCEPT ![n] = Idle]
          /\ UNCHANGED <<sessions, keepers>>
     ELSE /\ sessions' = [sessions EXCEPT ![r.site] = r.client]
          /\ keepers' = keepers \cup {[c |-> r.client, site |-> r.site, at |-> "sleeping"]}
          /\ To(n, "connected")
          /\ clients' = clients
  /\ BackFrame /\ wire' = wire

SayOutcome(n) ==
  /\ connects[n].at \in {"connected", "error"}
  /\ EmitConnState(connects[n].site, connects[n].at)
  /\ connects' = [connects EXCEPT ![n] = Idle]
  /\ BackFrame /\ UNCHANGED <<sessionVars, keepers>>

ConnectSite(n) ==
  \/ Look(n) \/ Probe(n) \/ SayDropped(n) \/ Load(n) \/ DialFails(n) \/ AskReturns(n)
  \/ AskTimesOut(n) \/ Pin(n) \/ LogIn(n) \/ Install(n) \/ SayOutcome(n)
  \/ \E k \in Keys : Present(n, k)
-----------------------------------------------------------------------------
(* keepAlive, DisconnectSite, DeleteSite, SaveSite.                        *)

ConnectionDies ==
  \E k \in clients :
    /\ scene.deaths /\ k.up
    /\ clients' = (clients \ {k}) \cup {[k EXCEPT !.up = FALSE]}
    /\ BackFrame /\ UNCHANGED <<sessions, connects, keepers, wire>>

\* A tick: is this still the registered session?  Then the ping.
KeepAlive(k) ==
  LET Now(at) == keepers' = (keepers \ {k}) \cup {[k EXCEPT !.at = at]}
      Stops == keepers' = keepers \ {k}
  IN /\ \/ /\ k.at = "sleeping"
           /\ IF sessions[k.site] = k.c THEN Now("pinging") ELSE Stops
           /\ UNCHANGED <<sessionVars, wire>>
        \/ /\ k.at = "pinging"
           /\ IF Up(k.c) THEN Now("sleeping") /\ UNCHANGED sessionVars
              ELSE DropSession(k.site, k.c, Now("dropped"), Stops)
           /\ wire' = wire
        \/ /\ k.at = "dropped"
           /\ EmitConnState(k.site, "disconnected")
           /\ Stops /\ UNCHANGED sessionVars
     /\ BackFrame /\ connects' = connects

CallFrame == UNCHANGED <<scene, connects, keepers, promptVars, treeVars, conn, presses>>

\* DisconnectSite, on its own or as the second thing DeleteSite does.
Hangup ==
  LET id == call.site
      next == IF sessions[id] # 0 THEN "hungup" ELSE IF call.op = "delete" THEN "erase" ELSE "done"
  IN /\ call.at = "hangup"
     /\ IF sessions[id] # 0 THEN Unregister(id, sessions[id]) ELSE UNCHANGED sessionVars
     /\ call' = [call EXCEPT !.at = next]
     /\ CallFrame /\ UNCHANGED <<dbVars, wire, listed>>

SayHangup ==
  /\ call.at = "hungup"
  /\ EmitConnState(call.site, "disconnected")
  /\ call' = [call EXCEPT !.at = IF call.op = "delete" THEN "erase" ELSE "done"]
  /\ CallFrame /\ UNCHANGED <<dbVars, sessionVars, listed>>

FindSite ==
  /\ call.at = "find"
  /\ call' = [call EXCEPT !.at = IF call.site \in sites THEN "hangup" ELSE "failed"]
  /\ CallFrame /\ UNCHANGED <<dbVars, sessionVars, wire, listed>>

\* Mutant: foreign keys are not enforced.
EraseRow ==
  /\ call.at = "erase"
  /\ sites' = sites \ {call.site}
  /\ call' = [call EXCEPT !.at = "done"]
  /\ CallFrame /\ UNCHANGED <<queued, pins, sessionVars, wire, listed>>

\* The row goes, and by its foreign keys the pins and the transfers.
EraseSite ==
  /\ call.at = "erase"
  /\ sites' = sites \ {call.site} /\ queued' = queued \ {call.site}
  /\ pins' = [pins EXCEPT ![call.site] = 0]
  /\ call' = [call EXCEPT !.at = "done"]
  /\ CallFrame /\ UNCHANGED <<sessionVars, wire, listed>>

InsertSite ==
  /\ call.at = "insert"
  /\ sites' = sites \cup {call.site}
  /\ call' = [call EXCEPT !.at = "done"]
  /\ CallFrame /\ UNCHANGED <<queued, pins, sessionVars, wire, listed>>

\* The promise settles: the list of sites is fetched anew, and a site just
\* saved is connected.
CallReturns ==
  /\ call.at \in {"done", "failed"}
  /\ listed' = IF call.at = "done" /\ call.op # "disconnect" THEN sites ELSE listed
  /\ call' = NoCall
  /\ IF call.op # "save" THEN connects' = connects
     ELSE \E n \in Connects :
            /\ connects[n] = Idle
            /\ connects' = [connects EXCEPT ![n].site = call.site, ![n].at = "look"]
  /\ UNCHANGED <<scene, dbVars, sessionVars, keepers, wire, promptVars, treeVars, conn, presses>>
-----------------------------------------------------------------------------
(* The folder tree.                                                        *)

\* What the effect of a tree node depends on, after this step.
Wants(p, id) ==
  /\ sidebar'[p] = id /\ <<p, id>> \in expanded'
  /\ children'[id] = "none" /\ id \notin failed'

\* React re-runs the effects whose inputs changed: a listing nobody wants
\* any more is marked stale, a folder that is wanted is listed.
TreeEffects(rest) ==
  LET Kept(l) == IF Wants(l.pane, l.site) THEN l ELSE [l EXCEPT !.stale = TRUE]
      kept == {Kept(l) : l \in rest}
      new == {x \in Panes \X SiteIds :
                Wants(x[1], x[2]) /\ ~\E l \in kept : l.pane = x[1] /\ l.site = x[2] /\ ~l.stale}
  IN /\ lists' = kept \cup {[pane |-> x[1], site |-> x[2], at |-> "sent", c |-> 0,
                             stale |-> FALSE, crossed |-> FALSE] : x \in new}
     /\ Cardinality(lists') <= MaxLists

\* ListRemote: takes the session, then reads; what fails may evict it.
ListRemote(l) ==
  LET Now(at, c) == lists' = (lists \ {l}) \cup {[l EXCEPT !.at = at, !.c = c]} IN
  /\ \/ /\ l.at = "sent"
        /\ IF sessions[l.site] = 0 THEN Now("failed", 0) ELSE Now("reading", sessions[l.site])
        /\ UNCHANGED <<sessionVars, wire>>
     \/ /\ l.at = "reading"
        /\ IF Up(l.c) THEN Now("ok", 0) /\ UNCHANGED sessionVars
           ELSE DropSession(l.site, l.c, Now("dropped", 0), Now("failed", 0))
        /\ wire' = wire
     \/ /\ l.at = "dropped"
        /\ EmitConnState(l.site, "disconnected")
        /\ Now("failed", 0) /\ UNCHANGED sessionVars
  /\ UNCHANGED <<scene, dbVars, connects, keepers, call, promptVars, screenVars, sidebar, children,
                 failed, expanded, presses>>

ScreenFrame == UNCHANGED <<scene, dbVars, sessionVars, connects, keepers, call>>

ListLands(l) ==
  /\ l.at \in {"ok", "failed"}
  /\ children' = IF l.stale \/ l.at = "failed" THEN children
                 ELSE [children EXCEPT ![l.site] = IF l.crossed THEN "old" ELSE "read"]
  /\ failed' = IF ~l.stale /\ l.at = "failed" THEN failed \cup {l.site} ELSE failed
  /\ UNCHANGED <<sidebar, expanded>>
  /\ TreeEffects(lists \ {l})
  /\ ScreenFrame /\ UNCHANGED <<wire, promptVars, screenVars, presses>>

\* Mutant: a purge forgets the children and leaves the branches open.
PurgeChildren(id) ==
  /\ children' = [children EXCEPT ![id] = "none"]
  /\ failed' = failed \ {id}
  /\ expanded' = expanded

PurgeSource(id) ==
  /\ children' = [children EXCEPT ![id] = "none"]
  /\ failed' = failed \ {id}
  /\ expanded' = {x \in expanded : x[2] # id}

InvalidateDir(id) ==
  /\ children' = [children EXCEPT ![id] = "none"]
  /\ failed' = failed \ {id}
  /\ expanded' = expanded

Receives(kind) == wire # <<>> /\ Head(wire).kind = kind /\ wire' = Tail(wire)

OnConnState ==
  LET e == Head(wire)
      Crosses(l) == IF l.site = e.site /\ e.val # "connecting" THEN [l EXCEPT !.crossed = TRUE]
                    ELSE l
  IN /\ Receives("connstate")
     /\ conn' = [conn EXCEPT ![e.site] = e.val]
     /\ IF e.val # "connecting" THEN PurgeSource(e.site)
        ELSE UNCHANGED <<children, failed, expanded>>
     /\ sidebar' = sidebar
     /\ TreeEffects({Crosses(l) : l \in lists})
     /\ ScreenFrame /\ UNCHANGED <<promptVars, listed, presses>>

OnFsChanged ==
  /\ Receives("fs")
  /\ InvalidateDir(Head(wire).site)
  /\ sidebar' = sidebar
  /\ TreeEffects(lists)
  /\ ScreenFrame /\ UNCHANGED <<promptVars, screenVars, presses>>

OnHostKey ==
  LET e == Head(wire) IN
  /\ Receives("hostkey")
  /\ dialogs' = Append(dialogs, [prompt |-> e.prompt, site |-> e.site, key |-> e.val])
  /\ ScreenFrame /\ UNCHANGED <<waiting, trusted, screenVars, treeVars, presses>>

-----------------------------------------------------------------------------
(* The user.                                                               *)

Can(b) == b \in scene.buttons
UserFrame == UNCHANGED <<scene, dbVars, sessionVars, keepers>>

\* QuickConnect opens, and asks for the list.
OpenQuickConnect ==
  /\ Can("connect") /\ listed # sites
  /\ listed' = sites
  /\ UNCHANGED <<connects, call, wire, promptVars, conn, treeVars>>

\* From the palette, a pane's source list, Reconnect or a row of QuickConnect.
Connect(id) ==
  /\ Can("connect") /\ id \in listed
  /\ \E n \in Connects :
       /\ connects[n] = Idle /\ \A m \in Connects : m < n => connects[m] # Idle
       /\ connects' = [connects EXCEPT ![n].site = id, ![n].at = "look"]
  /\ UNCHANGED <<call, wire, promptVars, screenVars, treeVars>>

Calls(op, id, at) ==
  /\ call = NoCall
  /\ call' = [op |-> op, site |-> id, at |-> at]
  /\ UNCHANGED <<connects, wire, promptVars, screenVars, treeVars>>

Disconnect(id) == Can("disconnect") /\ conn[id] = "connected" /\ Calls("disconnect", id, "hangup")

\* After its confirmation.
RemoveSite(id) == Can("remove") /\ id \in listed /\ Calls("delete", id, "find")

\* SQLite gives a new row the id after the largest.
SaveAndConnect(id) ==
  /\ Can("save") /\ id \notin sites /\ \A j \in SiteIds : j < id <=> j \in sites
  /\ Calls("save", id, "insert")

\* The dialog on top is answered; the broker ignores a prompt it has dropped.
AnswerHostKey(answer) ==
  LET top == Head(dialogs) IN
  /\ dialogs # <<>>
  /\ dialogs' = Tail(dialogs)
  /\ trusted' = IF answer = "trust" THEN trusted \cup {<<top.site, top.key>>} ELSE trusted
  /\ waiting' = {IF w.prompt = top.prompt THEN [w EXCEPT !.answer = answer] ELSE w : w \in waiting}
  /\ UNCHANGED <<connects, call, wire, screenVars, treeVars>>

\* setExpanded; opening asks again for what had failed.
SetExpanded(p, id, open) ==
  /\ Can("tree") /\ sidebar[p] = id
  /\ expanded' = IF open THEN expanded \cup {<<p, id>>} ELSE expanded \ {<<p, id>>}
  /\ failed' = IF open THEN failed \ {id} ELSE failed
  /\ UNCHANGED <<children, sidebar>>
  /\ TreeEffects(lists)
  /\ UNCHANGED <<connects, call, wire, promptVars, screenVars>>

\* The sidebar opens on the pane's site, or closes.
ShowTree(p, id) ==
  /\ Can("tree") /\ sidebar[p] # id
  /\ sidebar' = [sidebar EXCEPT ![p] = id]
  /\ UNCHANGED <<children, failed, expanded>>
  /\ TreeEffects(lists)
  /\ UNCHANGED <<connects, call, wire, promptVars, screenVars>>

\* A file operation or a transfer of this run changes a folder.
FolderChanges(id) ==
  /\ Can("fs") /\ Emit("fs", id, "", 0)
  /\ UNCHANGED <<connects, call, promptVars, screenVars, treeVars>>
-----------------------------------------------------------------------------

Init ==
  /\ scene \in Scenes
  /\ sites = scene.sites /\ listed = scene.sites /\ queued = scene.sites
  /\ pins = [id \in SiteIds |-> IF id \in scene.up THEN CHOOSE k \in scene.keys : TRUE ELSE 0]
  /\ sessions = [id \in SiteIds |-> IF id \in scene.up THEN id ELSE 0]
  /\ clients = {[c |-> id, site |-> id, up |-> TRUE] : id \in scene.up}
  /\ keepers = {[c |-> id, site |-> id, at |-> "sleeping"] : id \in scene.up}
  /\ conn = [id \in SiteIds |-> IF id \in scene.up THEN "connected" ELSE "none"]
  /\ connects = [n \in Connects |-> Idle] /\ call = NoCall
  /\ waiting = {} /\ wire = <<>> /\ dialogs = <<>> /\ trusted = {}
  /\ sidebar = [p \in Panes |-> IF Can("tree") THEN CHOOSE id \in scene.up : TRUE ELSE 0]
  /\ children = [id \in SiteIds |-> IF Can("tree") /\ id \in scene.up THEN "read" ELSE "none"]
  /\ expanded = {<<p, sidebar[p]>> : p \in Panes} \ {<<p, 0>> : p \in Panes}
  /\ failed = {} /\ lists = {}
  /\ presses = 0

Backend ==
  \/ \E n \in Connects : ConnectSite(n)
  \/ ConnectionDies
  \/ \E k \in keepers : KeepAlive(k)
  \/ \E l \in lists : ListRemote(l)
  \/ Hangup \/ SayHangup \/ FindSite \/ EraseSite \/ InsertSite \/ CallReturns

Frontend ==
  \/ OnConnState \/ OnFsChanged \/ OnHostKey
  \/ \E l \in lists : ListLands(l)

User ==
  /\ presses < scene.presses /\ presses' = presses + 1
  /\ \/ OpenQuickConnect
     \/ \E id \in SiteIds : \/ Connect(id) \/ Disconnect(id) \/ RemoveSite(id)
                            \/ SaveAndConnect(id) \/ FolderChanges(id)
     \/ \E answer \in {"trust", "deny"} : AnswerHostKey(answer)
     \/ \E p \in Panes, id \in SiteIds, open \in BOOLEAN : SetExpanded(p, id, open)
     \/ \E p \in Panes, id \in SiteIds \cup {0} : ShowTree(p, id)
  /\ UserFrame

Next == Backend \/ Frontend \/ User

Spec == Init /\ [][Next]_vars
-----------------------------------------------------------------------------
(* Properties.                                                             *)

\* Types; and no number stands for two connections.
TypeOK ==
  /\ sites \subseteq SiteIds /\ queued \subseteq sites /\ listed \subseteq SiteIds
  /\ pins \in [SiteIds -> Keys \cup {0}]
  /\ \A k \in clients : k.site \in SiteIds /\ k.up \in BOOLEAN
  /\ \A j, k \in clients : j.c = k.c => j = k
  /\ \A j, k \in keepers : j.c = k.c => j = k
  /\ \A id \in SiteIds : sessions[id] = 0 \/ \E k \in clients : k.c = sessions[id] /\ k.site = id
  /\ \A n \in Connects : connects[n].site \in SiteIds \cup {0}
  /\ children \in [SiteIds -> {"none", "read", "old"}] /\ failed \subseteq SiteIds
  /\ expanded \subseteq Panes \X SiteIds
  /\ \A w \in waiting : \E n \in Connects : connects[n].prompt = w.prompt

\* No connection is left open that nobody can close: it is registered, or a
\* ConnectSite is about to install or discard it, however many of them and
\* of disconnects, deletes and pings overlap (app.go:499-510).
NoLeakedSession ==
  \A k \in clients :
    \/ sessions[k.site] = k.c
    \/ \E n \in Connects : connects[n].at = "install" /\ connects[n].client = k.c

\* A session that works is taken away only by a disconnect or a delete: a
\* ping, a probe or a listing that found an earlier session dead never
\* tears down the one established since (app.go:517-519, :560-562).
WorkingSessionStays ==
  [][\A id \in SiteIds :
       sessions[id] # 0 /\ Up(sessions[id]) /\ sessions'[id] # sessions[id]
         => call # NoCall /\ call.site = id /\ call' # call]_vars

\* A key is pinned only after the user, with that site and that key on
\* screen, has trusted it: never by a timeout, by the answer to another
\* prompt, or by a second dial (prompts.go:13-14, hostkeys/store.go:40-42).
NoPinUnasked ==
  [][\A id \in SiteIds :
       pins'[id] \notin {pins[id], 0} => <<id, pins'[id]>> \in trusted]_vars

\* What the tree remembers of a site was asked for after the last time its
\* connection came, went or failed; an answer that was under way across that
\* edge is dropped, also when the branch is open again by then
\* (treeCache.ts:162-167, DirTree.tsx:59-84).
PurgedTreeStaysPurged == \A id \in SiteIds : children[id] # "old"
=============================================================================
