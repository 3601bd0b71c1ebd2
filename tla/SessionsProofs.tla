--------------------------- MODULE SessionsProofs ---------------------------
(***************************************************************************)
(* Invariants and action properties of Sessions, for every set of sites,   *)
(* keys, panes and overlapping ConnectSite calls, whatever the scene, and  *)
(* any number of listings and events under way.                            *)
(*                                                                         *)
(* The argument has four parts beside the types.  A number is given out    *)
(* only when nothing holds it (FreshIsUnused; Finite says that there is    *)
(* one).  So a connection belongs to the site it is registered for or to   *)
(* the ConnectSite about to install it, to one of them (Connections).  A   *)
(* prompt belongs to one dial, and every dialog and event that carries its *)
(* number shows the site and the key of that dial (Prompts).  A listing    *)
(* that the edge of a connection crossed is one nobody waits for (Crossed).*)
(***************************************************************************)
EXTENDS Sessions, FiniteSetTheorems, SequenceTheorems, TLAPS

-----------------------------------------------------------------------------
(* The inductive invariant.                                                *)

ConnectAt == {"idle", "look", "probe", "dropped", "load", "dial", "asking", "pin", "login",
              "install", "connected", "error"}
CallAt == {"idle", "hangup", "hungup", "find", "erase", "insert", "done", "failed"}
ConnStates == {"none", "connecting", "connected", "disconnected", "error"}

Connecting == [site : SiteIds \cup {0}, at : ConnectAt, client : Nat, key : Keys \cup {0},
               prompt : Nat]
Client == [c : Nat \ {0}, site : SiteIds, up : BOOLEAN]
Keeper == [c : Nat, site : SiteIds, at : {"sleeping", "pinging", "dropped"}]
Listing == [pane : Panes, site : SiteIds, at : {"sent", "reading", "ok", "failed", "dropped"},
            c : Nat, stale : BOOLEAN, crossed : BOOLEAN]
Prompt == [prompt : Nat \ {0}, answer : {"none", "trust", "deny"}]
Dialog == [prompt : Nat \ {0}, site : SiteIds, key : Keys]
Event == [kind : {"connstate"}, site : SiteIds, val : ConnStates, prompt : {0}]
         \cup [kind : {"fs"}, site : SiteIds, val : {""}, prompt : {0}]
         \cup [kind : {"hostkey"}, site : SiteIds, val : Keys, prompt : Nat \ {0}]

DbTypes ==
  /\ scene \in Scenes
  /\ sites \subseteq SiteIds /\ queued \subseteq sites
  /\ pins \in [SiteIds -> Keys \cup {0}]
SessionTypes ==
  /\ sessions \in [SiteIds -> Nat] /\ clients \subseteq Client /\ keepers \subseteq Keeper
  /\ connects \in [Connects -> Connecting]
  /\ \A n \in Connects : connects[n].at # "idle" => connects[n].site \in SiteIds
  /\ call \in [op : {"none", "disconnect", "delete", "save"}, site : SiteIds \cup {0}, at : CallAt]
  /\ call.at # "idle" => call.site \in SiteIds
PromptTypes ==
  /\ waiting \subseteq Prompt /\ wire \in Seq(Event) /\ dialogs \in Seq(Dialog)
ScreenTypes ==
  /\ listed \subseteq SiteIds
  /\ sidebar \in [Panes -> SiteIds \cup {0}]
  /\ children \in [SiteIds -> {"none", "read", "old"}] /\ failed \subseteq SiteIds
  /\ expanded \subseteq Panes \X SiteIds
  /\ lists \subseteq Listing
Types == DbTypes /\ SessionTypes /\ PromptTypes /\ ScreenTypes

\* Only finitely many things are open or under way.
Finite == /\ IsFiniteSet(clients) /\ IsFiniteSet(keepers)
          /\ IsFiniteSet(lists) /\ IsFiniteSet(waiting)

\* A connection has one number, and one place it belongs to.
Installing(n) == connects[n].at = "install"
ClientsOwned ==
  /\ \A j, k \in clients : j.c = k.c => j = k
  /\ \A id \in SiteIds :
       sessions[id] # 0 => \E k \in clients : k.c = sessions[id] /\ k.site = id
  /\ \A n \in Connects : Installing(n) =>
       /\ \E k \in clients : k.c = connects[n].client /\ k.site = connects[n].site
       /\ \A id \in SiteIds : sessions[id] # connects[n].client
       /\ \A m \in Connects : Installing(m) /\ connects[m].client = connects[n].client => m = n
  /\ NoLeakedSession
KeepersOwned ==
  /\ \A j, k \in keepers : j.c = k.c => j = k
  /\ \A n \in Connects, k \in keepers : Installing(n) => k.c # connects[n].client
Connections == ClientsOwned /\ KeepersOwned

\* A prompt is of one dial; whatever carries its number shows what it asks.
Asking(n) == connects[n].at = "asking"
PromptOwned ==
  /\ \A n \in Connects : Asking(n) => \E w \in waiting : w.prompt = connects[n].prompt
  /\ \A n \in Connects : ~Asking(n) => connects[n].prompt = 0
  /\ \A w \in waiting : \E n \in Connects : Asking(n) /\ connects[n].prompt = w.prompt
  /\ \A n, m \in Connects :
       Asking(n) /\ Asking(m) /\ connects[n].prompt = connects[m].prompt => n = m
DialogTrue(n) == \A j \in 1..Len(dialogs) :
  dialogs[j].prompt = connects[n].prompt
    => dialogs[j].site = connects[n].site /\ dialogs[j].key = connects[n].key
WireTrue(n) == \A j \in 1..Len(wire) :
  wire[j].prompt = connects[n].prompt
    => wire[j].site = connects[n].site /\ wire[j].val = connects[n].key
AnswerTrue(n) == \A w \in waiting :
  w.prompt = connects[n].prompt /\ w.answer = "trust"
    => <<connects[n].site, connects[n].key>> \in trusted
Prompts ==
  /\ PromptOwned
  /\ \A n \in Connects : Asking(n) => DialogTrue(n) /\ WireTrue(n) /\ AnswerTrue(n)
  /\ \A n \in Connects :
       connects[n].at = "pin" => <<connects[n].site, connects[n].key>> \in trusted

\* An answer asked for before an edge of its connection has nobody to take it.
Crossed == /\ \A l \in lists : l.crossed => l.stale
           /\ PurgedTreeStaysPurged

IInv == Types /\ Finite /\ Connections /\ Prompts /\ Crossed

-----------------------------------------------------------------------------
(* Numbers nothing holds.                                                  *)

\* The values a function takes on a finite set are finitely many.
LEMMA ImageIsFinite ==
  ASSUME NEW S, IsFiniteSet(S), NEW f
  PROVE  IsFiniteSet({f[x] : x \in S})
<1> DEFINE T == {f[x] : x \in S}
           g == [x \in S |-> f[x]]
<1>1. g \in Surjection(S, T)
  BY DEF Surjection
<1> HIDE DEF g, T
<1>2. IsFiniteSet(T)
  BY <1>1, FS_Surjection
<1>3. QED BY <1>2 DEF T

\* Among one more numbers than are taken there is one that is free, so the
\* number of a new connection or prompt is held by nothing.
LEMMA FreshIsUnused ==
  ASSUME NEW used, IsFiniteSet(used)
  PROVE  Fresh(used) \in Nat \ {0} /\ Fresh(used) \notin used
<1> DEFINE n == Cardinality(used)
<1>1. n \in Nat
  BY FS_CardinalityType
<1>2. \E m \in 1..(n + 1) : m \notin used
  <2> SUFFICES ASSUME 1..(n + 1) \subseteq used PROVE FALSE
    OBVIOUS
  <2>1. Cardinality(1..(n + 1)) <= n
    BY FS_Subset
  <2>2. Cardinality(1..(n + 1)) = n + 1
    BY <1>1, FS_Interval
  <2>3. QED BY <1>1, <2>1, <2>2
<1>3. Fresh(used) \in 1..(n + 1) /\ Fresh(used) \notin used
  BY <1>2 DEF Fresh
<1>4. QED BY <1>1, <1>3

\* The number LogIn gives its connection.
LEMMA NewClientIsNew ==
  ASSUME Finite
  PROVE  /\ NewClient \in Nat \ {0}
         /\ \A k \in clients : k.c # NewClient
         /\ \A k \in keepers : k.c # NewClient
         /\ \A n \in Connects : connects[n].client # NewClient
<1> DEFINE A == {k.c : k \in clients}  B == {k.c : k \in keepers}
           C == {l.c : l \in lists}    D == {connects[n].client : n \in Connects}
<1>1. IsFiniteSet(A)
  <2> DEFINE f == [k \in clients |-> k.c]
  <2>1. A = {f[k] : k \in clients} OBVIOUS
  <2> HIDE DEF f
  <2>2. QED BY <2>1, ImageIsFinite DEF Finite
<1>2. IsFiniteSet(B)
  <2> DEFINE f == [k \in keepers |-> k.c]
  <2>1. B = {f[k] : k \in keepers} OBVIOUS
  <2> HIDE DEF f
  <2>2. QED BY <2>1, ImageIsFinite DEF Finite
<1>3. IsFiniteSet(C)
  <2> DEFINE f == [l \in lists |-> l.c]
  <2>1. C = {f[l] : l \in lists} OBVIOUS
  <2> HIDE DEF f
  <2>2. QED BY <2>1, ImageIsFinite DEF Finite
<1>4. IsFiniteSet(D)
  <2> DEFINE f == [n \in Connects |-> connects[n].client]
  <2>1. D = {f[n] : n \in Connects} OBVIOUS
  <2> HIDE DEF f
  <2>2. QED BY <2>1, ImageIsFinite, FiniteAssumption
<1> HIDE DEF A, B, C, D
<1>5. IsFiniteSet(A \cup B \cup C \cup D)
  BY <1>1, <1>2, <1>3, <1>4, FS_Union
<1>6. NewClient = Fresh(A \cup B \cup C \cup D)
  BY DEF NewClient, A, B, C, D
<1>7. NewClient \in Nat \ {0} /\ NewClient \notin A \cup B \cup C \cup D
  BY <1>5, <1>6, FreshIsUnused
<1>8. QED BY <1>7 DEF A, B, C, D

\* The number Present gives its prompt.
LEMMA NewPromptIsNew ==
  ASSUME Finite, PromptTypes
  PROVE  /\ NewPrompt \in Nat \ {0}
         /\ \A w \in waiting : w.prompt # NewPrompt
         /\ \A j \in 1..Len(dialogs) : dialogs[j].prompt # NewPrompt
         /\ \A j \in 1..Len(wire) : wire[j].prompt # NewPrompt
<1> DEFINE A == {w.prompt : w \in waiting}  B == {dialogs[j].prompt : j \in DOMAIN dialogs}
           C == {wire[j].prompt : j \in DOMAIN wire}
<1>1. IsFiniteSet(A)
  <2> DEFINE f == [w \in waiting |-> w.prompt]
  <2>1. A = {f[w] : w \in waiting} OBVIOUS
  <2> HIDE DEF f
  <2>2. QED BY <2>1, ImageIsFinite DEF Finite
<1>2. /\ DOMAIN dialogs = 1..Len(dialogs) /\ IsFiniteSet(DOMAIN dialogs)
      /\ DOMAIN wire = 1..Len(wire) /\ IsFiniteSet(DOMAIN wire)
  BY LenProperties, FS_Interval DEF PromptTypes
<1>3. IsFiniteSet(B)
  <2> DEFINE f == [j \in DOMAIN dialogs |-> dialogs[j].prompt]
  <2>1. B = {f[j] : j \in DOMAIN dialogs} OBVIOUS
  <2> HIDE DEF f
  <2>2. QED BY <1>2, <2>1, ImageIsFinite
<1>4. IsFiniteSet(C)
  <2> DEFINE f == [j \in DOMAIN wire |-> wire[j].prompt]
  <2>1. C = {f[j] : j \in DOMAIN wire} OBVIOUS
  <2> HIDE DEF f
  <2>2. QED BY <1>2, <2>1, ImageIsFinite
<1> HIDE DEF A, B, C
<1>5. IsFiniteSet(A \cup B \cup C)
  BY <1>1, <1>3, <1>4, FS_Union
<1>6. NewPrompt = Fresh(A \cup B \cup C)
  BY DEF NewPrompt, A, B, C
<1>7. NewPrompt \in Nat \ {0} /\ NewPrompt \notin A \cup B \cup C
  BY <1>5, <1>6, FreshIsUnused
<1>8. QED BY <1>2, <1>7 DEF A, B, C

-----------------------------------------------------------------------------
(* Types.                                                                  *)

\* The first launch: what is up is registered and kept alive.
LEMMA InitTypes == Init => Types
<1> SUFFICES ASSUME Init PROVE Types OBVIOUS
<1>1. scene \in Scenes /\ scene.up \subseteq SiteIds /\ scene.sites \subseteq SiteIds
      /\ (CHOOSE k \in scene.keys : TRUE) \in Keys
      /\ (Can("tree") => (CHOOSE id \in scene.up : TRUE) \in SiteIds)
  BY SceneAssumption DEF Init, Can
<1> USE SiteAssumption, <1>1
<1>2. DbTypes
  BY DEF Init, DbTypes
<1>3. SessionTypes
  <2>1. clients \subseteq Client /\ keepers \subseteq Keeper /\ sessions \in [SiteIds -> Nat]
    <3>1. \A id \in scene.up : id \in SiteIds /\ id \in Nat \ {0}
      OBVIOUS
    <3>2. ASSUME NEW k \in clients PROVE k \in Client
      <4>1. PICK id \in scene.up : k = [c |-> id, site |-> id, up |-> TRUE]
        BY DEF Init
      <4>2. QED BY <3>1, <4>1 DEF Client
    <3>3. keepers \subseteq Keeper
      BY <3>1 DEF Init, Keeper
    <3>4. QED BY <3>1, <3>2, <3>3 DEF Init
  <2>2. Idle \in Connecting
    BY DEF Idle, Connecting, ConnectAt
  <2>3. connects \in [Connects -> Connecting] /\ \A n \in Connects : connects[n].at = "idle"
    BY <2>2 DEF Init, Idle
  <2>4. call = NoCall
    BY DEF Init
  <2>5. QED BY <2>1, <2>3, <2>4 DEF SessionTypes, NoCall, CallAt
<1>4. PromptTypes
  BY DEF Init, PromptTypes
<1>5. ScreenTypes
  <2>1. sidebar \in [Panes -> SiteIds \cup {0}]
    BY DEF Init
  <2>2. expanded \subseteq Panes \X SiteIds
    <3>1. ASSUME NEW x \in expanded PROVE x \in Panes \X SiteIds
      <4>1. PICK p \in Panes : x = <<p, sidebar[p]>>
        BY DEF Init
      <4>2. sidebar[p] # 0
        BY <4>1 DEF Init
      <4>3. QED BY <2>1, <4>1, <4>2
    <3>2. QED BY <3>1
  <2>3. children \in [SiteIds -> {"none", "read", "old"}] /\ listed \subseteq SiteIds
    BY DEF Init
  <2>4. QED BY <2>1, <2>2, <2>3 DEF Init, ScreenTypes
<1>6. QED BY <1>2, <1>3, <1>4, <1>5 DEF Types

\* The types that the database's columns keep.
LEMMA DbTypesStep ==
  ASSUME Types, [Next]_vars
  PROVE  DbTypes'
<1> USE DEF Types, DbTypes
<1>1. ASSUME NEW n \in Connects, ConnectSite(n) PROVE DbTypes'
  <2>1. CASE Pin(n)
    <3>1. connects[n].key \in Keys \cup {0}
      BY DEF SessionTypes, Connecting
    <3>2. QED BY <2>1, <3>1 DEF Pin
  <2>2. CASE ~Pin(n)
    BY <1>1, <2>2 DEF ConnectSite, Look, Probe, SayDropped, Load, Present, DialFails, AskReturns,
       AskTimesOut, LogIn, Install, SayOutcome, BackFrame, dbVars
  <2>3. QED BY <2>1, <2>2
<1>2. ASSUME EraseSite \/ InsertSite PROVE DbTypes'
  <2>1. call.site \in SiteIds
    BY <1>2 DEF EraseSite, InsertSite, SessionTypes
  <2>2. QED BY <1>2, <2>1 DEF EraseSite, InsertSite, CallFrame
<1>3. ASSUME UNCHANGED <<scene, dbVars>> PROVE DbTypes'
  BY <1>3 DEF dbVars
<1>4. ASSUME Frontend \/ User PROVE UNCHANGED <<scene, dbVars>>
  BY <1>4 DEF Frontend, User, OnConnState, OnFsChanged, OnHostKey, ListLands, ScreenFrame, UserFrame
<1>5. ASSUME Backend PROVE DbTypes'
  <2>1. CASE Hangup \/ SayHangup \/ FindSite \/ CallReturns
    BY <1>3, <2>1 DEF Hangup, SayHangup, FindSite, CallReturns, CallFrame
  <2>2. CASE ConnectionDies \/ (\E k \in keepers : KeepAlive(k)) \/ (\E l \in lists : ListRemote(l))
    BY <1>3, <2>2 DEF ConnectionDies, KeepAlive, ListRemote, BackFrame
  <2>3. QED BY <1>1, <1>2, <1>5, <2>1, <2>2 DEF Backend
<1>6. QED BY <1>3, <1>4, <1>5 DEF Next, vars

\* The types of connections, of the goroutines that hold them and of the call.
LEMMA SessionTypesStep ==
  ASSUME Types, Finite, [Next]_vars
  PROVE  SessionTypes'
<1> USE DEF Types, SessionTypes, ConnectAt, CallAt
<1> DEFINE Dialled(n, id) ==
             connects' = [connects EXCEPT ![n].site = id, ![n].at = "look"]
<1>0. ASSUME NEW n \in Connects, NEW id \in SiteIds, Dialled(n, id)
      PROVE  /\ connects' \in [Connects -> Connecting]
             /\ \A m \in Connects : connects'[m].at # "idle" => connects'[m].site \in SiteIds
  <2>1. \A m \in Connects : connects[m] \in Connecting
    OBVIOUS
  <2>2. connects' = [m \in Connects |-> IF m = n THEN [connects[n] EXCEPT !.site = id, !.at = "look"]
                                        ELSE connects[m]]
    BY <1>0
  <2>3. [connects[n] EXCEPT !.site = id, !.at = "look"] \in Connecting
    BY <2>1 DEF Connecting
  <2>4. QED BY <2>1, <2>2, <2>3 DEF Connecting
<1> HIDE DEF Dialled
<1>1. ASSUME NEW n \in Connects, ConnectSite(n) PROVE SessionTypes'
  <2> USE DEF To, BackFrame, sessionVars, Unregister, DropSession
  <2>1. call' = call
    BY <1>1 DEF ConnectSite, Look, Probe, SayDropped, Load, Present, DialFails, AskReturns,
       AskTimesOut, Pin, LogIn, Install, SayOutcome
  <2>2. sessions' \in [SiteIds -> Nat] /\ clients' \subseteq Client /\ keepers' \subseteq Keeper
    <3>1. CASE LogIn(n)
      <4>1. [c |-> NewClient, site |-> connects[n].site, up |-> TRUE] \in Client
        BY <3>1, NewClientIsNew DEF LogIn, Client
      <4>2. QED BY <3>1, <4>1 DEF LogIn
    <3>2. CASE Install(n)
      <4>1. connects[n].site \in SiteIds /\ connects[n].client \in Nat
        BY <3>2 DEF Install, Connecting
      <4>2. QED BY <3>2, <4>1 DEF Install, Keeper
    <3>3. CASE Probe(n)
      BY <3>3 DEF Probe
    <3>4. CASE ~(LogIn(n) \/ Install(n) \/ Probe(n))
      BY <1>1, <3>4 DEF ConnectSite, Look, SayDropped, Load, Present, DialFails, AskReturns,
         AskTimesOut, Pin, SayOutcome
    <3>5. QED BY <3>1, <3>2, <3>3, <3>4
  <2>3. /\ connects' \in [Connects -> Connecting]
        /\ \A m \in Connects : connects'[m].at # "idle" => connects'[m].site \in SiteIds
    <3> DEFINE r == connects[n]
    <3>1. r \in Connecting /\ connects[n].at # "idle" /\ r.site \in SiteIds
      BY <1>1 DEF ConnectSite, Look, Probe, SayDropped, Load, Present, DialFails, AskReturns,
       AskTimesOut, Pin, LogIn, Install, SayOutcome
    <3>2. Idle \in Connecting /\ Idle.at = "idle"
      BY DEF Idle, Connecting
    <3>3. CASE Look(n)
      <4>1. sessions[r.site] \in Nat
        BY <3>1
      <4>2. QED BY <3>1, <3>3, <4>1 DEF Look, Connecting
    <3>4. CASE \E at \in ConnectAt : To(n, at)
      BY <3>1, <3>4 DEF Connecting
    <3>5. CASE connects' = [connects EXCEPT ![n] = Idle]
      BY <3>2, <3>5
    <3>6. CASE LogIn(n)
      BY <3>1, <3>6, NewClientIsNew DEF LogIn, Connecting
    <3>7. CASE Load(n)
      BY <3>1, <3>2, <3>7 DEF Load, Connecting
    <3>8. CASE AskReturns(n) \/ AskTimesOut(n)
      <4>1. PICK at \in ConnectAt \ {"idle"} : Ends(n, at)
        BY <3>8 DEF AskReturns, AskTimesOut
      <4>2. QED BY <3>1, <4>1 DEF Ends, Connecting
    <3>9. CASE \E k \in Keys : Present(n, k)
      <4>1. PICK k \in Keys : Present(n, k)
        BY <3>9
      <4>2. CASE \E at \in ConnectAt : To(n, at)
        BY <3>4, <4>2
      <4>3. CASE connects' = [connects EXCEPT ![n].at = "asking", ![n].key = k,
                                              ![n].prompt = NewPrompt]
        <5>1. NewPrompt \in Nat
          BY NewPromptIsNew
        <5>2. QED BY <3>1, <4>3, <5>1 DEF Connecting
      <4>4. QED BY <4>1, <4>2, <4>3 DEF Present
    <3>10. QED BY <1>1, <3>3, <3>4, <3>5, <3>6, <3>7, <3>8, <3>9
       DEF ConnectSite, Probe, SayDropped, DialFails, Pin, Install, SayOutcome
  <2>4. QED BY <2>1, <2>2, <2>3
<1>2. ASSUME ConnectionDies PROVE SessionTypes'
  <2>1. PICK k \in clients : clients' = (clients \ {k}) \cup {[k EXCEPT !.up = FALSE]}
    BY <1>2 DEF ConnectionDies
  <2>2. [k EXCEPT !.up = FALSE] \in Client
    BY DEF Client
  <2>3. QED BY <1>2, <2>1, <2>2 DEF ConnectionDies, BackFrame
<1>3. ASSUME NEW k \in keepers, KeepAlive(k) PROVE SessionTypes'
  <2>1. \A at \in {"sleeping", "pinging", "dropped"} : [k EXCEPT !.at = at] \in Keeper
    BY DEF Keeper
  <2>2. keepers' \subseteq Keeper
    BY <1>3, <2>1 DEF KeepAlive, DropSession
  <2>3. sessions' \in [SiteIds -> Nat] /\ clients' \subseteq Client
    BY <1>3 DEF KeepAlive, DropSession, Unregister, sessionVars
  <2>4. QED BY <1>3, <2>2, <2>3 DEF KeepAlive, BackFrame
<1>4. ASSUME NEW l \in lists, ListRemote(l) PROVE SessionTypes'
  BY <1>4 DEF ListRemote, DropSession, Unregister, sessionVars
<1>5. ASSUME Hangup \/ SayHangup \/ FindSite \/ EraseSite \/ InsertSite PROVE SessionTypes'
  <2>1. sessions' \in [SiteIds -> Nat] /\ clients' \subseteq Client
    BY <1>5 DEF Hangup, SayHangup, FindSite, EraseSite, InsertSite, Unregister, sessionVars
  <2>2. PICK at \in CallAt : call.at # "idle" /\ call' = [call EXCEPT !.at = at]
    BY <1>5 DEF Hangup, SayHangup, FindSite, EraseSite, InsertSite
  <2>3. UNCHANGED <<connects, keepers>>
    BY <1>5 DEF Hangup, SayHangup, FindSite, EraseSite, InsertSite, CallFrame
  <2>4. QED BY <2>1, <2>2, <2>3
<1>6. ASSUME CallReturns PROVE SessionTypes'
  <2>1. call.site \in SiteIds
    BY <1>6 DEF CallReturns
  <2>2. CASE call.op # "save"
    BY <1>6, <2>2 DEF CallReturns, NoCall, sessionVars
  <2>3. CASE call.op = "save"
    <3>1. PICK n \in Connects : Dialled(n, call.site)
      BY <1>6, <2>3 DEF CallReturns, Dialled
    <3>2. QED BY <1>6, <2>1, <3>1, <1>0 DEF CallReturns, NoCall, sessionVars
  <2>4. QED BY <2>2, <2>3
<1>7. ASSUME Frontend PROVE SessionTypes'
  BY <1>7 DEF Frontend, OnConnState, OnFsChanged, OnHostKey, ListLands, ScreenFrame, sessionVars
<1>8. ASSUME NEW id \in SiteIds, Connect(id), UserFrame PROVE SessionTypes'
  <2>1. PICK n \in Connects : Dialled(n, id)
    BY <1>8 DEF Connect, Dialled
  <2>2. QED BY <1>8, <2>1, <1>0 DEF Connect, UserFrame, sessionVars
<1>9. ASSUME NEW id \in SiteIds, Disconnect(id) \/ RemoveSite(id) \/ SaveAndConnect(id), UserFrame
      PROVE  SessionTypes'
  BY <1>9 DEF Disconnect, RemoveSite, SaveAndConnect, Calls, UserFrame, sessionVars
<1>10. ASSUME NEW p, NEW id, NEW open, NEW answer, UserFrame,
              \/ OpenQuickConnect \/ FolderChanges(id) \/ AnswerHostKey(answer)
              \/ SetExpanded(p, id, open) \/ ShowTree(p, id)
       PROVE  SessionTypes'
  BY <1>10 DEF OpenQuickConnect, FolderChanges, AnswerHostKey, SetExpanded, ShowTree, UserFrame,
     sessionVars
<1>11. ASSUME UNCHANGED vars PROVE SessionTypes'
  BY <1>11 DEF vars, sessionVars
<1>12. QED
  BY <1>1, <1>2, <1>3, <1>4, <1>5, <1>6, <1>7, <1>8, <1>9, <1>10, <1>11 DEF Next, Backend, User

\* The events on the wire, whoever emits them and whoever receives them.
LEMMA WireTypeStep ==
  ASSUME Types, Finite, [Next]_vars
  PROVE  wire' \in Seq(Event)
<1> USE DEF Types, PromptTypes
<1>1. ASSUME NEW kind, NEW id, NEW val, NEW prompt, Emit(kind, id, val, prompt),
             [kind |-> kind, site |-> id, val |-> val, prompt |-> prompt] \in Event
      PROVE  wire' \in Seq(Event)
  BY <1>1, AppendProperties DEF Emit
<1>2. ASSUME NEW id \in SiteIds, NEW val \in ConnStates, EmitConnState(id, val)
      PROVE  wire' \in Seq(Event)
  <2>1. [kind |-> "connstate", site |-> id, val |-> val, prompt |-> 0] \in Event
    BY DEF Event
  <2>2. QED BY <1>2, <2>1, <1>1 DEF EmitConnState
<1>3. ASSUME NEW n \in Connects, ConnectSite(n) PROVE wire' \in Seq(Event)
  <2>1. connects[n].site \in SiteIds
    BY <1>3 DEF SessionTypes, ConnectSite, Look, Probe, SayDropped, Load, Present, DialFails,
       AskReturns, AskTimesOut, Pin, LogIn, Install, SayOutcome
  <2>2. ASSUME NEW k \in Keys, Present(n, k) PROVE wire' \in Seq(Event)
    <3>1. [kind |-> "hostkey", site |-> connects[n].site, val |-> k, prompt |-> NewPrompt] \in Event
      BY <2>1, NewPromptIsNew DEF Event
    <3>2. QED BY <2>2, <3>1, <1>1 DEF Present
  <2>3. CASE SayDropped(n) \/ Load(n) \/ SayOutcome(n)
    BY <2>1, <2>3, <1>2 DEF SayDropped, Load, SayOutcome, ConnStates
  <2>4. CASE wire' = wire
    BY <2>4
  <2>5. QED BY <1>3, <2>2, <2>3, <2>4 DEF ConnectSite, Look, Probe, DialFails, AskReturns,
       AskTimesOut, Pin, LogIn, Install
<1>4. ASSUME NEW k \in keepers, KeepAlive(k) PROVE wire' \in Seq(Event)
  BY <1>4, <1>2 DEF KeepAlive, SessionTypes, Keeper, ConnStates
<1>5. ASSUME NEW l \in lists, ListRemote(l) PROVE wire' \in Seq(Event)
  BY <1>5, <1>2 DEF ListRemote, ScreenTypes, Listing, ConnStates
<1>6. ASSUME SayHangup PROVE wire' \in Seq(Event)
  BY <1>6, <1>2 DEF SayHangup, SessionTypes, ConnStates
<1>7. ASSUME Frontend PROVE wire' \in Seq(Event)
  <2>1. wire' = wire \/ (wire # <<>> /\ wire' = Tail(wire))
    BY <1>7 DEF Frontend, OnConnState, OnFsChanged, OnHostKey, ListLands, Receives
  <2>2. QED BY <2>1, HeadTailProperties
<1>8. ASSUME NEW id \in SiteIds, FolderChanges(id) PROVE wire' \in Seq(Event)
  <2>1. [kind |-> "fs", site |-> id, val |-> "", prompt |-> 0] \in Event
    BY DEF Event
  <2>2. QED BY <1>8, <2>1, <1>1 DEF FolderChanges
<1>9. ASSUME User, \A id \in SiteIds : ~FolderChanges(id) PROVE wire' = wire
  BY <1>9 DEF User, OpenQuickConnect, Connect, Disconnect, RemoveSite, SaveAndConnect, Calls,
     AnswerHostKey, SetExpanded, ShowTree
<1>10. ASSUME ConnectionDies \/ Hangup \/ FindSite \/ EraseSite \/ InsertSite \/ CallReturns
       PROVE  wire' = wire
  BY <1>10 DEF ConnectionDies, Hangup, FindSite, EraseSite, InsertSite, CallReturns
<1>11. QED
  BY <1>3, <1>4, <1>5, <1>6, <1>7, <1>8, <1>9, <1>10 DEF Next, Backend, vars

\* What a step may do to the broker's prompts and to the dialogs: a dial asks or
\* stops asking, an event opens a dialog, an answer closes one.
LEMMA PromptMoves ==
  ASSUME [Next]_vars
  PROVE  \/ UNCHANGED <<waiting, dialogs>>
         \/ \E n \in Connects, k \in Keys : Present(n, k) /\ dialogs' = dialogs
         \/ \E n \in Connects : Forget(n) /\ dialogs' = dialogs
         \/ OnHostKey /\ waiting' = waiting
         \/ \E answer \in {"trust", "deny"} : AnswerHostKey(answer)
<1>1. ASSUME NEW n \in Connects, ConnectSite(n), \A k \in Keys : ~Present(n, k)
      PROVE  dialogs' = dialogs /\ (waiting' = waiting \/ Forget(n))
  BY <1>1 DEF ConnectSite, Look, Probe, SayDropped, Load, DialFails, AskReturns,
     AskTimesOut, Pin, LogIn, Install, SayOutcome, BackFrame, promptVars
<1>2. ASSUME NEW n \in Connects, NEW k \in Keys, Present(n, k)
      PROVE  dialogs' = dialogs
  BY <1>2 DEF Present
<1>3. ASSUME Backend, \A n \in Connects : ~ConnectSite(n)
      PROVE  UNCHANGED <<waiting, dialogs>>
  BY <1>3 DEF Backend, ConnectionDies, KeepAlive, ListRemote, Hangup, SayHangup, FindSite, EraseSite,
     InsertSite, CallReturns, BackFrame, CallFrame, promptVars
<1>4. ASSUME Frontend
      PROVE  UNCHANGED <<waiting, dialogs>> \/ (OnHostKey /\ waiting' = waiting)
  BY <1>4 DEF Frontend, OnConnState, OnFsChanged, OnHostKey, ListLands, promptVars
<1>5. ASSUME User
      PROVE  UNCHANGED <<waiting, dialogs>> \/ \E answer \in {"trust", "deny"} : AnswerHostKey(answer)
  BY <1>5 DEF User, OpenQuickConnect, Connect, Disconnect, RemoveSite, SaveAndConnect, Calls,
     FolderChanges, SetExpanded, ShowTree, promptVars
<1>6. ASSUME UNCHANGED vars PROVE UNCHANGED <<waiting, dialogs>>
  BY <1>6 DEF vars, promptVars
<1>7. QED BY <1>1, <1>2, <1>3, <1>4, <1>5, <1>6 DEF Next, Backend

\* The prompts that wait and the dialogs stay well-formed, and finitely many.
LEMMA PromptTypesStep ==
  ASSUME Types, Finite, [Next]_vars
  PROVE  PromptTypes' /\ IsFiniteSet(waiting')
<1> USE DEF Types, PromptTypes
<1>1. CASE UNCHANGED <<waiting, dialogs>>
  BY <1>1, WireTypeStep DEF Finite
<1>2. ASSUME NEW n \in Connects, NEW k \in Keys, Present(n, k), dialogs' = dialogs
      PROVE  PromptTypes' /\ IsFiniteSet(waiting')
  <2>1. CASE waiting' = waiting
    BY <1>2, <2>1, WireTypeStep DEF Finite
  <2>2. CASE waiting' = waiting \cup {[prompt |-> NewPrompt, answer |-> "none"]}
    <3>1. [prompt |-> NewPrompt, answer |-> "none"] \in Prompt
      BY NewPromptIsNew DEF Prompt
    <3>2. IsFiniteSet(waiting')
      BY <2>2, FS_AddElement DEF Finite
    <3>3. QED BY <1>2, <2>2, <3>1, <3>2, WireTypeStep
  <2>3. QED BY <1>2, <2>1, <2>2 DEF Present
<1>3. ASSUME NEW n \in Connects, Forget(n), dialogs' = dialogs
      PROVE  PromptTypes' /\ IsFiniteSet(waiting')
  <2>1. waiting' \subseteq waiting
    BY <1>3 DEF Forget
  <2>2. QED BY <1>3, <2>1, WireTypeStep, FS_Subset DEF Finite
<1>4. ASSUME OnHostKey, waiting' = waiting PROVE PromptTypes' /\ IsFiniteSet(waiting')
  <2>1. Head(wire) \in Event /\ Head(wire).kind = "hostkey"
    BY <1>4, HeadTailProperties DEF OnHostKey, Receives
  <2>2. [prompt |-> Head(wire).prompt, site |-> Head(wire).site, key |-> Head(wire).val] \in Dialog
    BY <2>1 DEF Event, Dialog
  <2>3. dialogs' \in Seq(Dialog)
    BY <1>4, <2>2, AppendProperties DEF OnHostKey
  <2>4. QED BY <1>4, <2>3, WireTypeStep DEF Finite
<1>5. ASSUME NEW answer \in {"trust", "deny"}, AnswerHostKey(answer)
      PROVE  PromptTypes' /\ IsFiniteSet(waiting')
  <2> DEFINE Answered(w) == IF w.prompt = Head(dialogs).prompt THEN [w EXCEPT !.answer = answer]
                            ELSE w
             f == [w \in waiting |-> Answered(w)]
  <2>1. waiting' = {Answered(w) : w \in waiting}
    BY <1>5 DEF AnswerHostKey
  <2>2. waiting' = {f[w] : w \in waiting}
    BY <2>1
  <2>3. waiting' \subseteq Prompt
    BY <2>1 DEF Prompt
  <2> HIDE DEF f
  <2>4. IsFiniteSet(waiting')
    BY <2>2, ImageIsFinite DEF Finite
  <2>5. dialogs' \in Seq(Dialog)
    BY <1>5, HeadTailProperties DEF AnswerHostKey
  <2>6. QED BY <2>3, <2>4, <2>5, WireTypeStep
<1>6. QED BY <1>1, <1>2, <1>3, <1>4, <1>5, PromptMoves

\* The effects of the tree leave finitely many listings, and of those that
\* crossed an edge only such as nobody waits for.
LEMMA TreeEffectsKeep ==
  ASSUME Types, NEW rest, rest \subseteq Listing, IsFiniteSet(rest), TreeEffects(rest),
         sidebar' \in [Panes -> SiteIds \cup {0}],
         \A l \in rest : l.crossed => l.stale \/ ~Wants(l.pane, l.site)
  PROVE  /\ lists' \subseteq Listing /\ IsFiniteSet(lists')
         /\ \A l \in lists' : l.crossed => l.stale
<1> DEFINE Kept(l) == IF Wants(l.pane, l.site) THEN l ELSE [l EXCEPT !.stale = TRUE]
           kept == {Kept(l) : l \in rest}
           new == {x \in Panes \X SiteIds :
                     Wants(x[1], x[2])
                       /\ ~\E l \in kept : l.pane = x[1] /\ l.site = x[2] /\ ~l.stale}
           Sent(x) == [pane |-> x[1], site |-> x[2], at |-> "sent", c |-> 0,
                       stale |-> FALSE, crossed |-> FALSE]
           sent == {Sent(x) : x \in new}
<1>1. lists' = kept \cup sent
  BY DEF TreeEffects
<1>2. \A l \in kept : l \in Listing /\ (l.crossed => l.stale)
  <2>1. ASSUME NEW l \in rest PROVE Kept(l) \in Listing /\ (Kept(l).crossed => Kept(l).stale)
    BY DEF Listing
  <2> HIDE DEF Kept
  <2>2. QED BY <2>1
<1>3. \A l \in sent : l \in Listing /\ ~l.crossed
  <2>1. ASSUME NEW x \in Panes \X SiteIds PROVE Sent(x) \in Listing /\ ~Sent(x).crossed
    BY DEF Listing
  <2> HIDE DEF Sent
  <2>2. QED BY <2>1
<1>4. IsFiniteSet(kept)
  <2> DEFINE f == [l \in rest |-> Kept(l)]
  <2>1. kept = {f[l] : l \in rest} OBVIOUS
  <2> HIDE DEF f
  <2>2. QED BY <2>1, ImageIsFinite
<1>5. IsFiniteSet(sent)
  <2> DEFINE f == [p \in Panes |-> <<p, sidebar'[p]>>]
             g == [x \in new |-> Sent(x)]
  <2>1. new \subseteq {f[p] : p \in Panes}
    BY DEF Wants
  <2>2. sent = {g[x] : x \in new} OBVIOUS
  <2> HIDE DEF f, g, new
  <2>3. IsFiniteSet({f[p] : p \in Panes})
    BY ImageIsFinite, FiniteAssumption
  <2>4. IsFiniteSet(new)
    BY <2>1, <2>3, FS_Subset
  <2>5. QED BY <2>2, <2>4, ImageIsFinite
<1> HIDE DEF kept, sent
<1>6. QED BY <1>1, <1>2, <1>3, <1>4, <1>5, FS_Union

\* What the frontend shows and remembers, and that a listing which crossed an
\* edge is stale: the purge of that edge closed its branch.
LEMMA ScreenStep ==
  ASSUME Types, Finite, Crossed, [Next]_vars
  PROVE  ScreenTypes' /\ IsFiniteSet(lists') /\ Crossed'
<1> DEFINE Goal == ScreenTypes' /\ IsFiniteSet(lists') /\ Crossed'
<1> USE DEF Types, ScreenTypes, Crossed, PurgedTreeStaysPurged
<1>1. ASSUME listed' \subseteq SiteIds, UNCHANGED treeVars PROVE Goal
  BY <1>1 DEF treeVars, Finite
<1>2. ASSUME NEW l \in lists, ListRemote(l) PROVE Goal
  <2> DEFINE Now(at, c) == lists' = (lists \ {l}) \cup {[l EXCEPT !.at = at, !.c = c]}
  <2>1. ASSUME NEW at \in {"sent", "reading", "ok", "failed", "dropped"}, NEW c \in Nat, Now(at, c)
        PROVE  lists' \subseteq Listing /\ IsFiniteSet(lists')
               /\ \A m \in lists' : m.crossed => m.stale
    <3>1. [l EXCEPT !.at = at, !.c = c] \in Listing
          /\ [l EXCEPT !.at = at, !.c = c].crossed = l.crossed
          /\ [l EXCEPT !.at = at, !.c = c].stale = l.stale
      BY DEF Listing
    <3>2. IsFiniteSet(lists')
      BY <2>1, FS_RemoveElement, FS_AddElement DEF Finite
    <3>3. QED BY <2>1, <3>1, <3>2
  <2>2. l.site \in SiteIds /\ sessions[l.site] \in Nat
    BY DEF Listing, SessionTypes
  <2>3. \E at \in {"sent", "reading", "ok", "failed", "dropped"}, c \in Nat : Now(at, c)
    BY <1>2, <2>2 DEF ListRemote, DropSession
  <2>4. UNCHANGED <<listed, sidebar, children, failed, expanded>>
    BY <1>2 DEF ListRemote, screenVars
  <2>5. QED BY <2>1, <2>3, <2>4
<1>3. ASSUME NEW l \in lists, ListLands(l) PROVE Goal
  <2>1. lists \ {l} \subseteq Listing /\ IsFiniteSet(lists \ {l})
    BY FS_RemoveElement DEF Finite
  <2>2. l.site \in SiteIds /\ l.stale \in BOOLEAN /\ l.crossed \in BOOLEAN
    BY DEF Listing
  <2>3. /\ children' \in [SiteIds -> {"none", "read", "old"}]
        /\ \A id \in SiteIds : children'[id] # "old"
    BY <1>3, <2>2 DEF ListLands
  <2>4. failed' \subseteq SiteIds
    BY <1>3, <2>2 DEF ListLands
  <2>5. UNCHANGED <<listed, sidebar, expanded>> /\ TreeEffects(lists \ {l})
    BY <1>3 DEF ListLands, screenVars
  <2>6. QED BY <2>1, <2>3, <2>4, <2>5, TreeEffectsKeep
<1>4. ASSUME OnConnState PROVE Goal
  <2> DEFINE e == Head(wire)
             Crosses(l) == IF l.site = e.site /\ e.val # "connecting" THEN [l EXCEPT !.crossed = TRUE]
                           ELSE l
             rest == {Crosses(l) : l \in lists}
             f == [l \in lists |-> Crosses(l)]
  <2>1. UNCHANGED <<listed, sidebar>> /\ TreeEffects(rest)
    BY <1>4 DEF OnConnState
  <2>2. e.val # "connecting" => PurgeSource(e.site)
    BY <1>4 DEF OnConnState
  <2>3. e.val = "connecting" => UNCHANGED <<children, failed, expanded>>
    BY <1>4 DEF OnConnState
  <2>4. /\ children' \in [SiteIds -> {"none", "read", "old"}]
        /\ \A id \in SiteIds : children'[id] # "old"
        /\ failed' \subseteq SiteIds /\ expanded' \subseteq Panes \X SiteIds
    BY <2>2, <2>3 DEF PurgeSource
  <2>5. rest \subseteq Listing
    BY DEF Listing
  <2>6. IsFiniteSet(rest)
    <3>1. rest = {f[l] : l \in lists} OBVIOUS
    <3> HIDE DEF f, rest
    <3>2. QED BY <3>1, ImageIsFinite DEF Finite
  <2>7. ASSUME NEW l \in lists
        PROVE  Crosses(l).crossed => Crosses(l).stale \/ ~Wants(Crosses(l).pane, Crosses(l).site)
    <3>1. l \in Listing
      OBVIOUS
    <3>2. CASE l.site = e.site /\ e.val # "connecting"
      <4>1. Crosses(l).site = e.site /\ <<Crosses(l).pane, Crosses(l).site>> \notin expanded'
        BY <2>2, <3>1, <3>2 DEF PurgeSource, Listing
      <4>2. QED BY <4>1 DEF Wants
    <3>3. CASE ~(l.site = e.site /\ e.val # "connecting")
      BY <3>3
    <3>4. QED BY <3>2, <3>3
  <2> HIDE DEF Crosses, e
  <2>8. QED BY <2>1, <2>4, <2>5, <2>6, <2>7, TreeEffectsKeep
<1>5. ASSUME TreeEffects(lists), listed' = listed, sidebar' \in [Panes -> SiteIds \cup {0}],
             children' = children \/ \E id \in SiteIds : children' = [children EXCEPT ![id] = "none"],
             failed' \subseteq SiteIds, expanded' \subseteq Panes \X SiteIds
      PROVE  Goal
  BY <1>5, TreeEffectsKeep DEF Finite
<1>6. ASSUME OnFsChanged PROVE Goal
  <2>1. Head(wire) \in Event
    BY <1>6, HeadTailProperties DEF OnFsChanged, Receives, PromptTypes
  <2>2. Head(wire).site \in SiteIds
    BY <2>1 DEF Event
  <2>3. QED BY <1>5, <1>6, <2>2 DEF OnFsChanged, InvalidateDir, screenVars
<1>7. ASSUME NEW p \in Panes, NEW id \in SiteIds, NEW open \in BOOLEAN, SetExpanded(p, id, open)
      PROVE Goal
  BY <1>5, <1>7 DEF SetExpanded, screenVars
<1>8. ASSUME NEW p \in Panes, NEW id \in SiteIds \cup {0}, ShowTree(p, id) PROVE Goal
  BY <1>5, <1>8 DEF ShowTree, screenVars
<1>9. ASSUME Backend, \A l \in lists : ~ListRemote(l) PROVE Goal
  <2>1. UNCHANGED treeVars
    BY <1>9 DEF Backend, ConnectSite, Look, Probe, SayDropped, Load, Present, DialFails, AskReturns,
       AskTimesOut, Pin, LogIn, Install, SayOutcome, ConnectionDies, KeepAlive, Hangup, SayHangup,
       FindSite, EraseSite, InsertSite, CallReturns, BackFrame, CallFrame
  <2>2. listed' = listed \/ listed' = sites
    BY <1>9 DEF Backend, ConnectSite, Look, Probe, SayDropped, Load, Present, DialFails, AskReturns,
       AskTimesOut, Pin, LogIn, Install, SayOutcome, ConnectionDies, KeepAlive, Hangup, SayHangup,
       FindSite, EraseSite, InsertSite, CallReturns, BackFrame, screenVars
  <2>3. QED BY <1>1, <2>1, <2>2 DEF DbTypes
<1>10. ASSUME OnHostKey PROVE Goal
  BY <1>1, <1>10 DEF OnHostKey, screenVars
<1>11. ASSUME NEW id \in SiteIds, NEW answer,
              \/ OpenQuickConnect \/ Connect(id) \/ Disconnect(id) \/ RemoveSite(id)
              \/ SaveAndConnect(id) \/ FolderChanges(id) \/ AnswerHostKey(answer)
       PROVE  Goal
  <2>1. UNCHANGED treeVars
    BY <1>11 DEF OpenQuickConnect, Connect, Disconnect, RemoveSite, SaveAndConnect, Calls,
       FolderChanges, AnswerHostKey
  <2>2. listed' = listed \/ listed' = sites
    BY <1>11 DEF OpenQuickConnect, Connect, Disconnect, RemoveSite, SaveAndConnect, Calls,
       FolderChanges, AnswerHostKey, screenVars
  <2>3. QED BY <1>1, <2>1, <2>2 DEF DbTypes
<1>12. ASSUME OpenQuickConnect \/ (\E answer \in {"trust", "deny"} : AnswerHostKey(answer)) PROVE Goal
  <2>1. UNCHANGED treeVars
    BY <1>12 DEF OpenQuickConnect, AnswerHostKey
  <2>2. listed' = listed \/ listed' = sites
    BY <1>12 DEF OpenQuickConnect, AnswerHostKey, screenVars
  <2>3. QED BY <1>1, <2>1, <2>2 DEF DbTypes
<1>13. ASSUME UNCHANGED vars PROVE Goal
  BY <1>1, <1>13 DEF vars, screenVars
<1> HIDE DEF Goal
<1>14. Goal
  BY <1>2, <1>3, <1>4, <1>6, <1>7, <1>8, <1>9, <1>10, <1>11, <1>12, <1>13 DEF Next, Frontend, User,
     Backend
<1>15. QED BY <1>14 DEF Goal

-----------------------------------------------------------------------------
(* Connections.                                                            *)

\* The first launch: what is up is registered, under the number of its site.
LEMMA InitConnections == Init => Finite /\ Connections
<1> SUFFICES ASSUME Init PROVE Finite /\ Connections OBVIOUS
<1>1. scene.up \subseteq SiteIds /\ IsFiniteSet(scene.up) /\ SiteIds \subseteq Nat \ {0}
  BY SceneAssumption, SiteAssumption, FS_Subset DEF Init
<1>2. \A n \in Connects : ~Installing(n)
  BY DEF Init, Idle, Installing
<1>3. \A k \in clients : k.c \in scene.up /\ k.site = k.c /\ sessions[k.site] = k.c
  BY <1>1 DEF Init
<1>4. \A j, k \in clients : j.c = k.c => j = k
  <2>1. \A k \in clients : k = [c |-> k.c, site |-> k.c, up |-> TRUE]
    BY DEF Init
  <2>2. QED BY <2>1
<1>5. \A j, k \in keepers : j.c = k.c => j = k
  <2>1. \A k \in keepers : k = [c |-> k.c, site |-> k.c, at |-> "sleeping"]
    BY DEF Init
  <2>2. QED BY <2>1
<1>6. \A id \in SiteIds : sessions[id] # 0 => id \in scene.up /\ sessions[id] = id
  BY DEF Init
<1>7. ASSUME NEW id \in scene.up PROVE \E k \in clients : k.c = id /\ k.site = id
  <2>1. [c |-> id, site |-> id, up |-> TRUE] \in clients
    BY DEF Init
  <2>2. QED BY <2>1
<1>8. Connections
  BY <1>2, <1>3, <1>4, <1>5, <1>6, <1>7 DEF Connections, ClientsOwned, KeepersOwned, NoLeakedSession
<1>9. IsFiniteSet(clients)
  <2> DEFINE f == [id \in scene.up |-> [c |-> id, site |-> id, up |-> TRUE]]
  <2>1. clients = {f[id] : id \in scene.up}
    BY DEF Init
  <2> HIDE DEF f
  <2>2. QED BY <1>1, <2>1, ImageIsFinite
<1>10. IsFiniteSet(keepers)
  <2> DEFINE f == [id \in scene.up |-> [c |-> id, site |-> id, at |-> "sleeping"]]
  <2>1. keepers = {f[id] : id \in scene.up}
    BY DEF Init
  <2> HIDE DEF f
  <2>2. QED BY <1>1, <2>1, ImageIsFinite
<1>11. IsFiniteSet(lists) /\ IsFiniteSet(waiting)
  BY FS_EmptySet DEF Init
<1>12. QED BY <1>8, <1>9, <1>10, <1>11 DEF Finite

\* Which ConnectSite is about to install, and what: nothing a step does changes
\* that, except that it logs in or installs.
SameInstalls == \A n \in Connects : /\ Installing(n) <=> Installing(n)'
                                    /\ Installing(n) => connects'[n] = connects[n]

\* Logging in and installing apart, no step changes what is about to be installed.
LEMMA InstallMoves ==
  ASSUME Types, [Next]_vars, \A n \in Connects : ~LogIn(n) /\ ~Install(n)
  PROVE  SameInstalls
<1> USE DEF Installing
<1>1. ASSUME NEW n \in Connects, ConnectSite(n) PROVE SameInstalls
  <2>1. \A m \in Connects : m # n => connects'[m] = connects[m]
    BY <1>1 DEF Types, SessionTypes, ConnectSite, Look, Probe, DropSession, SayDropped, Load, Present,
       DialFails, AskReturns, AskTimesOut, Pin, SayOutcome, To, Ends
  <2>2. connects[n].at # "install"
    BY <1>1 DEF ConnectSite, Look, Probe, SayDropped, Load, Present, DialFails, AskReturns,
       AskTimesOut, Pin, SayOutcome
  <2>3. connects'[n].at # "install"
    <3> DEFINE Elsewhere == ConnectAt \ {"install"}
    <3> USE DEF ConnectAt
    <3>1. connects \in [Connects -> Connecting]
      BY DEF Types, SessionTypes
    <3>2. CASE connects' = [connects EXCEPT ![n] = Idle]
      BY <3>1, <3>2 DEF Idle
    <3>3. CASE \E at \in Elsewhere : To(n, at) \/ Ends(n, at)
      BY <3>1, <3>3 DEF To, Ends, Connecting
    <3>4. CASE Look(n)
      BY <3>1, <3>4 DEF Look, Connecting
    <3>5. CASE Load(n)
      BY <3>1, <3>2, <3>5 DEF Load, Connecting
    <3>6. CASE \E k \in Keys : Present(n, k)
      BY <3>1, <3>6 DEF Present, To, Connecting
    <3>7. CASE AskReturns(n) \/ AskTimesOut(n)
      BY <3>3, <3>7 DEF AskReturns, AskTimesOut
    <3>8. QED BY <1>1, <3>2, <3>3, <3>4, <3>5, <3>6, <3>7
       DEF ConnectSite, Probe, DropSession, SayDropped, DialFails, Pin, SayOutcome
  <2>4. QED BY <2>1, <2>2, <2>3 DEF SameInstalls
<1>2. ASSUME NEW n \in Connects, NEW id, connects[n] = Idle,
             connects' = [connects EXCEPT ![n].site = id, ![n].at = "look"]
      PROVE  SameInstalls
  BY <1>2 DEF Types, SessionTypes, Connecting, SameInstalls, Idle
<1>3. ASSUME connects' = connects PROVE SameInstalls
  BY <1>3 DEF SameInstalls
<1>4. CASE CallReturns
  BY <1>2, <1>3, <1>4 DEF CallReturns
<1>5. ASSUME NEW id \in SiteIds, Connect(id) PROVE SameInstalls
  BY <1>2, <1>5 DEF Connect
<1>6. ASSUME Backend, ~CallReturns, \A n \in Connects : ~ConnectSite(n) PROVE connects' = connects
  BY <1>6 DEF Backend, ConnectionDies, KeepAlive, ListRemote, Hangup, SayHangup, FindSite, EraseSite,
     InsertSite, CallFrame
<1>7. ASSUME Frontend PROVE connects' = connects
  BY <1>7 DEF Frontend, OnConnState, OnFsChanged, OnHostKey, ListLands, ScreenFrame
<1>8. ASSUME User, \A id \in SiteIds : ~Connect(id) PROVE connects' = connects
  BY <1>8 DEF User, OpenQuickConnect, Disconnect, RemoveSite, SaveAndConnect, Calls,
     FolderChanges, AnswerHostKey, SetExpanded, ShowTree
<1>9. ASSUME UNCHANGED vars PROVE connects' = connects
  BY <1>9 DEF vars
<1>10. QED BY <1>1, <1>3, <1>4, <1>5, <1>6, <1>7, <1>8, <1>9 DEF Next, Backend

\* Closing the registered connection of a site leaves every other where it was.
LEMMA UnregisterKeeps ==
  ASSUME Types, ClientsOwned, SameInstalls, NEW id \in SiteIds, NEW c, sessions[id] = c,
         Unregister(id, c)
  PROVE  ClientsOwned'
<1> USE DEF Types, SessionTypes, SameInstalls
<1>1. CASE c = 0
  <2>1. clients' = clients
    BY <1>1 DEF Unregister, Client
  <2>2. sessions' = sessions
    BY <1>1 DEF Unregister
  <2>3. QED BY <2>1, <2>2 DEF ClientsOwned, NoLeakedSession, Installing
<1>2. CASE c # 0
  <2>1. /\ clients' \subseteq clients
        /\ \A k \in clients : k.c # c => k \in clients'
        /\ \A k \in clients' : k.c # c
        /\ \A j \in SiteIds : sessions'[j] = IF j = id THEN 0 ELSE sessions[j]
    BY DEF Unregister
  <2>2. PICK k \in clients : k.c = c /\ k.site = id
    BY <1>2 DEF ClientsOwned
  <2>3. \A j \in SiteIds : j # id /\ sessions[j] # 0 => sessions[j] # c
    BY <2>2 DEF ClientsOwned
  <2>4. \A j, m \in clients' : j.c = m.c => j = m
    BY <2>1 DEF ClientsOwned
  <2>5. \A j \in SiteIds : sessions'[j] # 0 => \E m \in clients' : m.c = sessions'[j] /\ m.site = j
    BY <2>1, <2>3 DEF ClientsOwned
  <2>6. ASSUME NEW n \in Connects, Installing(n)'
        PROVE  /\ \E m \in clients' : m.c = connects'[n].client /\ m.site = connects'[n].site
               /\ \A j \in SiteIds : sessions'[j] # connects'[n].client
               /\ \A m \in Connects : Installing(m)' /\ connects'[m].client = connects'[n].client
                                        => m = n
    <3>1. Installing(n) /\ connects'[n] = connects[n]
      BY <2>6
    <3>2. PICK m \in clients : m.c = connects[n].client /\ m.site = connects[n].site
      BY <3>1 DEF ClientsOwned
    <3>3. connects[n].client # c /\ m.c # 0
      BY <3>1 DEF ClientsOwned, Client
    <3>4. QED BY <2>1, <3>1, <3>2, <3>3 DEF ClientsOwned
  <2>7. NoLeakedSession'
    <3> SUFFICES ASSUME NEW m \in clients'
                 PROVE  \/ sessions'[m.site] = m.c
                        \/ \E n \in Connects : connects'[n].at = "install" /\ connects'[n].client = m.c
      BY DEF NoLeakedSession
    <3>1. m \in clients /\ m.c # c /\ m.site \in SiteIds
      BY <2>1 DEF Client
    <3>2. CASE sessions[m.site] = m.c
      BY <2>1, <3>1, <3>2
    <3>3. CASE \E n \in Connects : connects[n].at = "install" /\ connects[n].client = m.c
      BY <3>3 DEF Installing
    <3>4. QED BY <3>1, <3>2, <3>3 DEF ClientsOwned, NoLeakedSession
  <2>8. QED BY <2>4, <2>5, <2>6, <2>7 DEF ClientsOwned
<1>3. QED BY <1>1, <1>2

\* Every connection stays where it belongs, and is of one place only.
LEMMA ClientsOwnedStep ==
  ASSUME Types, Finite, ClientsOwned, [Next]_vars
  PROVE  ClientsOwned' /\ IsFiniteSet(clients')
<1> DEFINE Goal == ClientsOwned' /\ IsFiniteSet(clients')
<1> USE DEF Types, SessionTypes
<1>1. ASSUME NEW n \in Connects, LogIn(n) PROVE Goal
  <2> DEFINE new == [c |-> NewClient, site |-> connects[n].site, up |-> TRUE]
  <2>1. clients' = clients \cup {new} /\ sessions' = sessions
    BY <1>1 DEF LogIn
  <2>2. \A m \in Connects : connects'[m] = IF m = n THEN [connects[n] EXCEPT !.at = "install",
                                                                       !.client = NewClient]
                                           ELSE connects[m]
    BY <1>1 DEF LogIn
  <2>3. /\ connects'[n].at = "install" /\ connects'[n].client = NewClient
        /\ connects'[n].site = connects[n].site
        /\ ~Installing(n) /\ connects[n].site \in SiteIds
    BY <1>1, <2>2 DEF LogIn, Connecting, Installing
  <2>4. IsFiniteSet(clients')
    BY <2>1, FS_AddElement DEF Finite
  <2>5. \A m \in Connects : m # n => (Installing(m)' <=> Installing(m)) /\ connects'[m] = connects[m]
    BY <2>2 DEF Installing
  <2>6. /\ new.c = NewClient /\ new.site = connects[n].site
        /\ NewClient # 0 /\ \A k \in clients : k.c # NewClient
        /\ \A m \in Connects : connects[m].client # NewClient
    BY NewClientIsNew
  <2> HIDE DEF new
  <2>7. \A j, k \in clients' : j.c = k.c => j = k
    BY <2>1, <2>6 DEF ClientsOwned
  <2>8. \A id \in SiteIds : sessions'[id] # 0 =>
          sessions'[id] # NewClient /\ \E k \in clients' : k.c = sessions'[id] /\ k.site = id
    BY <2>1, <2>6 DEF ClientsOwned
  <2>9. ASSUME NEW m \in Connects, Installing(m)'
        PROVE  /\ \E k \in clients' : k.c = connects'[m].client /\ k.site = connects'[m].site
               /\ \A id \in SiteIds : sessions'[id] # connects'[m].client
               /\ \A j \in Connects : Installing(j)' /\ connects'[j].client = connects'[m].client
                                        => j = m
    <3>1. CASE m = n
      BY <2>1, <2>3, <2>5, <2>6, <2>8, <3>1
    <3>2. CASE m # n
      BY <2>1, <2>3, <2>5, <2>6, <2>9, <3>2 DEF ClientsOwned
    <3>3. QED BY <3>1, <3>2
  <2>10. NoLeakedSession'
    BY <2>1, <2>3, <2>5, <2>6 DEF ClientsOwned, NoLeakedSession, Installing
  <2>11. QED BY <2>4, <2>7, <2>8, <2>9, <2>10 DEF ClientsOwned
<1>2. ASSUME NEW n \in Connects, Install(n) PROVE Goal
  <2> DEFINE r == connects[n]
  <2>1. /\ Installing(n) /\ r.site \in SiteIds /\ r \in Connecting
        /\ ~Installing(n)' /\ \A m \in Connects : m # n => connects'[m] = connects[m]
    BY <1>2 DEF Install, To, Installing, Connecting, Idle
  <2>2. \A m \in Connects : Installing(m)' => m # n /\ Installing(m)
    BY <2>1 DEF Installing
  <2>3. PICK k \in clients : k.c = r.client /\ k.site = r.site
    BY <2>1 DEF ClientsOwned
  <2>4. CASE sessions[r.site] # 0
    <3>1. clients' = {j \in clients : j.c # r.client} /\ sessions' = sessions
      BY <1>2, <2>4 DEF Install
    <3>2. IsFiniteSet(clients')
      BY <3>1, FS_Subset DEF Finite
    <3>3. \A id \in SiteIds : sessions[id] # r.client
      BY <2>1 DEF ClientsOwned
    <3>4. NoLeakedSession'
      BY <2>1, <3>1 DEF ClientsOwned, NoLeakedSession, Installing
    <3>5. QED BY <2>1, <2>2, <3>1, <3>2, <3>3, <3>4 DEF ClientsOwned
  <2>5. CASE sessions[r.site] = 0
    <3>1. clients' = clients /\ sessions' = [sessions EXCEPT ![r.site] = r.client]
      BY <1>2, <2>5 DEF Install
    <3>2. \A id \in SiteIds : sessions'[id] = IF id = r.site THEN r.client ELSE sessions[id]
      BY <3>1
    <3>3. \A id \in SiteIds : sessions'[id] # 0 => \E j \in clients : j.c = sessions'[id] /\ j.site = id
      BY <2>3, <3>2 DEF ClientsOwned
    <3>4. ASSUME NEW m \in Connects, Installing(m)'
          PROVE  /\ \E j \in clients : j.c = connects'[m].client /\ j.site = connects'[m].site
                 /\ \A id \in SiteIds : sessions'[id] # connects'[m].client
                 /\ \A j \in Connects : Installing(j)' /\ connects'[j].client = connects'[m].client
                                          => j = m
      BY <2>1, <2>2, <3>2, <3>4 DEF ClientsOwned
    <3>5. NoLeakedSession'
      <4> SUFFICES ASSUME NEW j \in clients
                   PROVE  \/ sessions'[j.site] = j.c
                          \/ \E m \in Connects : connects'[m].at = "install" /\ connects'[m].client = j.c
        BY <3>1 DEF NoLeakedSession
      <4>1. CASE j = k
        BY <2>1, <2>3, <3>2, <4>1
      <4>2. CASE j # k
        <5>1. j.c # r.client /\ j.site \in SiteIds /\ j.c # 0
          BY <2>3, <4>2 DEF ClientsOwned, Client
        <5>2. CASE sessions[j.site] = j.c
          BY <2>5, <3>2, <5>1, <5>2
        <5>3. CASE \E m \in Connects : connects[m].at = "install" /\ connects[m].client = j.c
          BY <2>1, <5>1, <5>3
        <5>4. QED BY <5>2, <5>3 DEF ClientsOwned, NoLeakedSession
      <4>3. QED BY <4>1, <4>2
    <3>6. QED BY <3>1, <3>3, <3>4, <3>5 DEF ClientsOwned, Finite
  <2>6. QED BY <2>4, <2>5
<1>3. ASSUME SameInstalls, UNCHANGED sessionVars PROVE Goal
  BY <1>3 DEF SameInstalls, sessionVars, ClientsOwned, NoLeakedSession, Finite, Installing
<1>4. ASSUME SameInstalls, NEW id \in SiteIds, NEW c, sessions[id] = c, Unregister(id, c) PROVE Goal
  <2>1. clients' \subseteq clients
    BY <1>4 DEF Unregister
  <2>2. IsFiniteSet(clients')
    BY <2>1, FS_Subset DEF Finite
  <2>3. QED BY <1>4, <2>2, UnregisterKeeps
<1>5. ASSUME SameInstalls, NEW k \in clients, sessions' = sessions,
             clients' = (clients \ {k}) \cup {[k EXCEPT !.up = FALSE]}
      PROVE  Goal
  <2> DEFINE dead == [k EXCEPT !.up = FALSE]
  <2>1. k \in Client
    OBVIOUS
  <2>2. dead.c = k.c /\ dead.site = k.site
    BY <2>1 DEF Client
  <2>3. IsFiniteSet(clients')
    BY <1>5, FS_RemoveElement, FS_AddElement DEF Finite
  <2>4. clients' = (clients \ {k}) \cup {dead}
    BY <1>5
  <2> HIDE DEF dead
  <2>5. \A j, m \in clients' : j.c = m.c => j = m
    BY <2>2, <2>4 DEF ClientsOwned
  <2>6. \A j \in clients : \E m \in clients' : m.c = j.c /\ m.site = j.site
    BY <2>2, <2>4
  <2>7. \A m \in clients' : \E j \in clients : m.c = j.c /\ m.site = j.site
    BY <2>2, <2>4
  <2>8. \A id \in SiteIds : sessions'[id] # 0 => \E m \in clients' : m.c = sessions'[id] /\ m.site = id
    BY <1>5, <2>6 DEF ClientsOwned
  <2>9. ASSUME NEW n \in Connects, Installing(n)'
        PROVE  /\ \E m \in clients' : m.c = connects'[n].client /\ m.site = connects'[n].site
               /\ \A id \in SiteIds : sessions'[id] # connects'[n].client
               /\ \A m \in Connects : Installing(m)' /\ connects'[m].client = connects'[n].client
                                        => m = n
    BY <1>5, <2>6, <2>9 DEF ClientsOwned, SameInstalls
  <2>10. NoLeakedSession'
    BY <1>5, <2>7 DEF ClientsOwned, NoLeakedSession, SameInstalls, Installing
  <2>11. QED BY <2>3, <2>5, <2>8, <2>9, <2>10 DEF ClientsOwned
<1>6. ASSUME \A n \in Connects : ~LogIn(n) /\ ~Install(n)
      PROVE  \/ UNCHANGED sessionVars
             \/ \E id \in SiteIds : Unregister(id, sessions[id])
             \/ sessions' = sessions /\ \E k \in clients :
                  clients' = (clients \ {k}) \cup {[k EXCEPT !.up = FALSE]}
  <2>1. ASSUME NEW n \in Connects, ConnectSite(n), ~Probe(n) PROVE UNCHANGED sessionVars
    BY <1>6, <2>1 DEF ConnectSite, Look, SayDropped, Load, Present, DialFails, AskReturns, AskTimesOut,
       Pin, SayOutcome
  <2>2. ASSUME NEW n \in Connects, Probe(n)
        PROVE  UNCHANGED sessionVars \/ \E id \in SiteIds : Unregister(id, sessions[id])
    BY <2>2 DEF Probe, DropSession
  <2>3. ASSUME NEW k \in keepers, KeepAlive(k)
        PROVE  UNCHANGED sessionVars \/ \E id \in SiteIds : Unregister(id, sessions[id])
    BY <2>3 DEF KeepAlive, DropSession, Keeper
  <2>4. ASSUME NEW l \in lists, ListRemote(l)
        PROVE  UNCHANGED sessionVars \/ \E id \in SiteIds : Unregister(id, sessions[id])
    BY <2>4 DEF ListRemote, DropSession, ScreenTypes, Listing
  <2>5. ASSUME Hangup
        PROVE  UNCHANGED sessionVars \/ \E id \in SiteIds : Unregister(id, sessions[id])
    BY <2>5 DEF Hangup
  <2>6. ASSUME SayHangup \/ FindSite \/ EraseSite \/ InsertSite \/ CallReturns PROVE UNCHANGED sessionVars
    BY <2>6 DEF SayHangup, FindSite, EraseSite, InsertSite, CallReturns
  <2>7. ASSUME Frontend \/ User PROVE UNCHANGED sessionVars
    BY <2>7 DEF Frontend, OnConnState, OnFsChanged, OnHostKey, ListLands, ScreenFrame, User, UserFrame
  <2>8. ASSUME ConnectionDies
        PROVE  sessions' = sessions /\ \E k \in clients :
                  clients' = (clients \ {k}) \cup {[k EXCEPT !.up = FALSE]}
    BY <2>8 DEF ConnectionDies
  <2>9. QED BY <2>1, <2>2, <2>3, <2>4, <2>5, <2>6, <2>7, <2>8 DEF Next, Backend, vars
<1> HIDE DEF Goal
<1>7. Goal
  BY <1>1, <1>2, <1>3, <1>4, <1>5, <1>6, InstallMoves
<1>8. QED BY <1>7 DEF Goal

\* One keepAlive per connection, and none for one that is still to be installed.
LEMMA KeepersOwnedStep ==
  ASSUME Types, Finite, Connections, [Next]_vars
  PROVE  KeepersOwned' /\ IsFiniteSet(keepers')
<1> DEFINE Goal == KeepersOwned' /\ IsFiniteSet(keepers')
<1> USE DEF Types, SessionTypes, Connections
<1>1. ASSUME NEW n \in Connects, LogIn(n) PROVE Goal
  <2>1. \A m \in Connects : Installing(m)' =>
          (Installing(m) /\ connects'[m] = connects[m]) \/ connects'[m].client = NewClient
    BY <1>1 DEF LogIn, Installing, Connecting
  <2>2. keepers' = keepers
    BY <1>1 DEF LogIn
  <2>3. QED BY <2>1, <2>2, NewClientIsNew DEF KeepersOwned, Finite
<1>2. ASSUME NEW n \in Connects, Install(n) PROVE Goal
  <2> DEFINE r == connects[n]
             k == [c |-> r.client, site |-> r.site, at |-> "sleeping"]
  <2>1. /\ Installing(n) /\ ~Installing(n)'
        /\ \A m \in Connects : m # n => connects'[m] = connects[m]
    BY <1>2 DEF Install, To, Installing, Connecting, Idle
  <2>2. \A m \in Connects : Installing(m)' =>
          Installing(m) /\ connects'[m] = connects[m] /\ connects[m].client # r.client
    BY <2>1 DEF Installing, ClientsOwned
  <2>3. keepers' = keepers \/ keepers' = keepers \cup {k}
    BY <1>2 DEF Install
  <2>4. k.c = r.client /\ \A j \in keepers : j.c # r.client
    BY <2>1 DEF KeepersOwned
  <2> HIDE DEF k
  <2>5. IsFiniteSet(keepers')
    BY <2>3, FS_AddElement DEF Finite
  <2>6. QED BY <2>2, <2>3, <2>4, <2>5 DEF KeepersOwned
<1>3. ASSUME SameInstalls, keepers' = keepers PROVE Goal
  BY <1>3 DEF SameInstalls, KeepersOwned, Finite, Installing
<1>4. ASSUME SameInstalls, NEW k \in keepers, KeepAlive(k) PROVE Goal
  <2>1. PICK at \in {"sleeping", "pinging", "dropped"} :
          keepers' = keepers \ {k} \/ keepers' = (keepers \ {k}) \cup {[k EXCEPT !.at = at]}
    BY <1>4 DEF KeepAlive, DropSession
  <2> DEFINE j == [k EXCEPT !.at = at]
  <2>2. j.c = k.c
    BY DEF Keeper
  <2>3. keepers' = keepers \ {k} \/ keepers' = (keepers \ {k}) \cup {j}
    BY <2>1
  <2> HIDE DEF j
  <2>4. IsFiniteSet(keepers')
    <3>1. IsFiniteSet(keepers \ {k})
      BY FS_RemoveElement DEF Finite
    <3>2. IsFiniteSet((keepers \ {k}) \cup {j})
      BY <3>1, FS_AddElement
    <3>3. QED BY <2>3, <3>1, <3>2
  <2>5. \A a, b \in keepers' : a.c = b.c => a = b
    BY <2>2, <2>3 DEF KeepersOwned
  <2>6. \A a \in keepers' : \E b \in keepers : b.c = a.c
    BY <2>2, <2>3
  <2>7. QED BY <1>4, <2>4, <2>5, <2>6 DEF KeepersOwned, SameInstalls
<1>5. ASSUME \A n \in Connects : ~LogIn(n) /\ ~Install(n), \A k \in keepers : ~KeepAlive(k)
      PROVE  keepers' = keepers
  <2>1. ASSUME NEW n \in Connects, ConnectSite(n) PROVE keepers' = keepers
    BY <1>5, <2>1 DEF ConnectSite, Look, Probe, SayDropped, Load, Present, DialFails, AskReturns,
       AskTimesOut, Pin, SayOutcome, BackFrame
  <2>2. ASSUME Backend, \A n \in Connects : ~ConnectSite(n) PROVE keepers' = keepers
    BY <1>5, <2>2 DEF Backend, ConnectionDies, ListRemote, Hangup, SayHangup, FindSite, EraseSite,
       InsertSite, CallReturns, CallFrame
  <2>3. ASSUME Frontend \/ User PROVE keepers' = keepers
    BY <2>3 DEF Frontend, OnConnState, OnFsChanged, OnHostKey, ListLands, ScreenFrame, User, UserFrame
  <2>4. QED BY <2>1, <2>2, <2>3 DEF Next, vars
<1>6. ASSUME NEW k \in keepers, KeepAlive(k) PROVE SameInstalls
  BY <1>6 DEF KeepAlive, SameInstalls, Installing
<1> HIDE DEF Goal
<1>7. Goal
  BY <1>1, <1>2, <1>3, <1>4, <1>5, <1>6, InstallMoves
<1>8. QED BY <1>7 DEF Goal

-----------------------------------------------------------------------------
(* Prompts.                                                                *)

\* What a step may do to the dials that wait for an answer or have had one: a
\* key is presented, the question ends, or nothing.
SameAsking == \A n \in Connects :
                /\ Asking(n) <=> Asking(n)'
                /\ Asking(n) \/ connects'[n].at = "pin" => connects'[n] = connects[n]
                /\ ~Asking(n) => connects'[n].prompt = connects[n].prompt \/ connects'[n].prompt = 0
EndsAsking(n, at) ==
  Asking(n) /\ Ends(n, at) /\ Forget(n) /\ UNCHANGED <<wire, dialogs, trusted>>
Asks(n, k) ==
  /\ connects[n].at = "dial"
  /\ Emit("hostkey", connects[n].site, k, NewPrompt)
  /\ waiting' = waiting \cup {[prompt |-> NewPrompt, answer |-> "none"]}
  /\ connects' = [connects EXCEPT ![n].at = "asking", ![n].key = k, ![n].prompt = NewPrompt]
  /\ UNCHANGED <<dialogs, trusted>>

WireMoves == \/ wire' = wire
             \/ wire # <<>> /\ wire' = Tail(wire)
             \/ \E kind, id, val : Emit(kind, id, val, 0)
Quiet == SameAsking /\ WireMoves /\ UNCHANGED <<waiting, dialogs, trusted>>

\* What a step may do to the prompts: nothing, show one, answer one, raise one,
\* or end the one a connect waits for, by failing or by pinning a trusted key.
LEMMA AskMoves ==
  ASSUME Types, [Next]_vars
  PROVE  \/ Quiet
         \/ SameAsking /\ OnHostKey
         \/ SameAsking /\ \E answer \in {"trust", "deny"} : AnswerHostKey(answer)
         \/ \E n \in Connects, k \in Keys : Asks(n, k)
         \/ \E n \in Connects : EndsAsking(n, "error")
         \/ \E n \in Connects, w \in waiting :
              w.prompt = connects[n].prompt /\ w.answer = "trust" /\ EndsAsking(n, "pin")
<1> DEFINE Ended == \/ \E n \in Connects : EndsAsking(n, "error")
                    \/ \E n \in Connects, w \in waiting :
                         w.prompt = connects[n].prompt /\ w.answer = "trust" /\ EndsAsking(n, "pin")
<1> USE DEF Asking
<1>0. connects \in [Connects -> Connecting]
  BY DEF Types, SessionTypes
<1>1. ASSUME NEW n \in Connects, NEW at \in ConnectAt \ {"asking", "pin"}, To(n, at), ~Asking(n)
      PROVE  SameAsking
  BY <1>0, <1>1 DEF To, SameAsking, Connecting
<1>2. ASSUME NEW n \in Connects, connects' = [connects EXCEPT ![n] = Idle], ~Asking(n)
      PROVE  SameAsking
  BY <1>0, <1>2 DEF SameAsking, Connecting, Idle
<1>3. ASSUME NEW n \in Connects, AskReturns(n) \/ AskTimesOut(n) PROVE Ended
  <2>1. CASE AskReturns(n)
    <3>1. PICK w \in waiting : /\ w.prompt = connects[n].prompt
                               /\ Ends(n, IF w.answer = "trust" THEN "pin" ELSE "error")
      BY <2>1 DEF AskReturns
    <3>2. Asking(n) /\ Forget(n) /\ UNCHANGED <<wire, dialogs, trusted>>
      BY <2>1 DEF AskReturns
    <3>3. CASE w.answer = "trust"
      BY <3>1, <3>2, <3>3 DEF EndsAsking
    <3>4. CASE w.answer # "trust"
      BY <3>1, <3>2, <3>4 DEF EndsAsking
    <3>5. QED BY <3>3, <3>4
  <2>2. CASE AskTimesOut(n)
    BY <2>2 DEF AskTimesOut, EndsAsking
  <2>3. QED BY <1>3, <2>1, <2>2
<1>4. ASSUME NEW n \in Connects, NEW k \in Keys, Present(n, k) PROVE Quiet \/ Asks(n, k)
  <2>1. CASE \E at \in ConnectAt \ {"asking", "pin"} : To(n, at) /\ UNCHANGED <<waiting, wire>>
    <3>1. SameAsking
      BY <1>1, <1>4, <2>1 DEF Present
    <3>2. QED BY <1>4, <2>1, <3>1 DEF Present, Quiet, WireMoves
  <2>2. CASE Asks(n, k)
    BY <2>2
  <2>3. QED BY <1>4, <2>1, <2>2 DEF Present, Asks, ConnectAt
<1>5. ASSUME NEW n \in Connects, ConnectSite(n), ~AskReturns(n), ~AskTimesOut(n),
             \A k \in Keys : ~Present(n, k)
      PROVE  Quiet
  <2>1. ~Asking(n)
    BY <1>5 DEF ConnectSite, Look, Probe, SayDropped, Load, DialFails, Pin, LogIn, Install, SayOutcome
  <2>2. ASSUME Look(n) PROVE SameAsking
    BY <1>0, <2>2 DEF Look, SameAsking, Connecting
  <2>3. ASSUME Load(n) PROVE SameAsking
    BY <1>0, <1>2, <2>1, <2>3 DEF Load, SameAsking, Connecting
  <2>4. ASSUME LogIn(n) PROVE SameAsking
    BY <1>0, <2>4 DEF LogIn, SameAsking, Connecting
  <2>5. SameAsking
    BY <1>1, <1>2, <1>5, <2>1, <2>2, <2>3, <2>4
       DEF ConnectSite, Probe, DropSession, SayDropped, DialFails, Pin, Install, SayOutcome, ConnectAt
  <2>6. UNCHANGED <<waiting, dialogs, trusted>>
    BY <1>5 DEF ConnectSite, Look, Probe, SayDropped, Load, DialFails, Pin, LogIn, Install, SayOutcome,
       BackFrame, promptVars
  <2>7. WireMoves
    BY <1>5 DEF ConnectSite, Look, Probe, SayDropped, Load, DialFails, Pin, LogIn, Install, SayOutcome,
       EmitConnState, WireMoves
  <2>8. QED BY <2>5, <2>6, <2>7 DEF Quiet
<1>6. ASSUME NEW n \in Connects, NEW id, connects[n] = Idle,
             connects' = [connects EXCEPT ![n].site = id, ![n].at = "look"]
      PROVE  SameAsking
  BY <1>0, <1>6 DEF Connecting, SameAsking, Idle
<1>7. ASSUME connects' = connects PROVE SameAsking
  BY <1>7 DEF SameAsking
<1>8. CASE CallReturns
  BY <1>6, <1>7, <1>8 DEF CallReturns, Quiet, WireMoves, promptVars
<1>9. ASSUME NEW id \in SiteIds, Connect(id) PROVE Quiet
  BY <1>6, <1>9 DEF Connect, Quiet, WireMoves, promptVars
<1>10. ASSUME Backend, ~CallReturns, \A n \in Connects : ~ConnectSite(n) PROVE Quiet
  <2>1. connects' = connects /\ UNCHANGED <<waiting, dialogs, trusted>>
    BY <1>10 DEF Backend, ConnectionDies, KeepAlive, ListRemote, Hangup, SayHangup, FindSite, EraseSite,
       InsertSite, CallFrame, BackFrame, promptVars
  <2>2. WireMoves
    BY <1>10 DEF Backend, ConnectionDies, KeepAlive, ListRemote, Hangup, SayHangup, FindSite, EraseSite,
       InsertSite, EmitConnState, WireMoves
  <2>3. QED BY <1>7, <2>1, <2>2 DEF Quiet
<1>11. ASSUME Frontend PROVE Quiet \/ (SameAsking /\ OnHostKey)
  <2>1. connects' = connects
    BY <1>11 DEF Frontend, OnConnState, OnFsChanged, OnHostKey, ListLands, ScreenFrame
  <2>2. SameAsking
    BY <1>7, <2>1
  <2>3. CASE ~OnHostKey
    <3>1. UNCHANGED <<waiting, dialogs, trusted>>
      BY <1>11, <2>3 DEF Frontend, OnConnState, OnFsChanged, ListLands, promptVars
    <3>2. WireMoves
      BY <1>11, <2>3 DEF Frontend, OnConnState, OnFsChanged, ListLands, Receives, WireMoves
    <3>3. Quiet
      BY <2>2, <3>1, <3>2 DEF Quiet
    <3>4. QED BY <3>3
  <2>4. QED BY <2>2, <2>3
<1>12. ASSUME User, \A id \in SiteIds : ~Connect(id)
       PROVE  Quiet \/ (SameAsking /\ \E answer \in {"trust", "deny"} : AnswerHostKey(answer))
  <2>1. connects' = connects
    BY <1>12 DEF User, OpenQuickConnect, Disconnect, RemoveSite, SaveAndConnect, Calls,
       FolderChanges, AnswerHostKey, SetExpanded, ShowTree
  <2>2. SameAsking
    BY <1>7, <2>1
  <2>3. CASE \A answer \in {"trust", "deny"} : ~AnswerHostKey(answer)
    <3>1. UNCHANGED <<waiting, dialogs, trusted>>
      BY <1>12, <2>3 DEF User, OpenQuickConnect, Disconnect, RemoveSite, SaveAndConnect, Calls,
         FolderChanges, SetExpanded, ShowTree, promptVars
    <3>2. WireMoves
      BY <1>12, <2>3 DEF User, OpenQuickConnect, Disconnect, RemoveSite, SaveAndConnect, Calls,
         FolderChanges, SetExpanded, ShowTree, WireMoves
    <3>3. Quiet
      BY <2>2, <3>1, <3>2 DEF Quiet
    <3>4. QED BY <3>3
  <2>4. QED BY <2>2, <2>3
<1>13. ASSUME UNCHANGED vars PROVE Quiet
  BY <1>7, <1>13 DEF vars, Quiet, WireMoves, promptVars
<1>14. QED BY <1>3, <1>4, <1>5, <1>8, <1>9, <1>10, <1>11, <1>12, <1>13 DEF Next, Backend

\* While the same dials ask, the broker waits for the same prompts.
LEMMA OwnedStays ==
  ASSUME PromptOwned, SameAsking,
         \A w \in waiting : \E v \in waiting' : v.prompt = w.prompt,
         \A v \in waiting' : \E w \in waiting : w.prompt = v.prompt
  PROVE  PromptOwned'
<1>1. ASSUME NEW n \in Connects, Asking(n)' PROVE \E v \in waiting' : v.prompt = connects'[n].prompt
  <2>1. Asking(n) /\ connects'[n] = connects[n]
    BY <1>1 DEF SameAsking
  <2>2. QED BY <2>1 DEF PromptOwned
<1>2. ASSUME NEW n \in Connects, ~Asking(n)' PROVE connects'[n].prompt = 0
  <2>1. ~Asking(n)
    BY <1>2 DEF SameAsking
  <2>2. QED BY <2>1 DEF PromptOwned, SameAsking
<1>3. ASSUME NEW v \in waiting' PROVE \E n \in Connects : Asking(n)' /\ connects'[n].prompt = v.prompt
  <2>1. PICK w \in waiting : w.prompt = v.prompt
    OBVIOUS
  <2>2. PICK n \in Connects : Asking(n) /\ connects[n].prompt = w.prompt
    BY DEF PromptOwned
  <2>3. Asking(n)' /\ connects'[n] = connects[n]
    BY <2>2 DEF SameAsking
  <2>4. QED BY <2>1, <2>2, <2>3
<1>4. ASSUME NEW n \in Connects, NEW m \in Connects, Asking(n)', Asking(m)',
             connects'[n].prompt = connects'[m].prompt
      PROVE  n = m
  <2>1. Asking(n) /\ Asking(m) /\ connects'[n] = connects[n] /\ connects'[m] = connects[m]
    BY <1>4 DEF SameAsking
  <2>2. QED BY <1>4, <2>1 DEF PromptOwned
<1>5. QED BY <1>1, <1>2, <1>3, <1>4 DEF PromptOwned

\* A prompt stays with its dial, and what carries its number stays true to it.
LEMMA PromptsStep ==
  ASSUME Types, Finite, Prompts, [Next]_vars
  PROVE  Prompts'
<1> USE DEF Types, SessionTypes, PromptTypes
<1>1. \A n \in Connects : Asking(n) => connects[n].prompt # 0
  BY DEF Prompts, PromptOwned, Prompt
<1>2. ASSUME Quiet PROVE Prompts'
  <2>1. PromptOwned'
    BY <1>2, OwnedStays DEF Quiet, Prompts
  <2>2. ASSUME NEW n \in Connects, Asking(n)'
        PROVE  DialogTrue(n)' /\ WireTrue(n)' /\ AnswerTrue(n)'
    <3>1. Asking(n) /\ connects'[n] = connects[n]
      BY <1>2, <2>2 DEF Quiet, SameAsking
    <3>2. DialogTrue(n)' /\ AnswerTrue(n)'
      BY <1>2, <3>1 DEF Quiet, Prompts, DialogTrue, AnswerTrue
    <3>3. ASSUME NEW kind, NEW id, NEW val, Emit(kind, id, val, 0) PROVE WireTrue(n)'
      <4>1. wire' = Append(wire, [kind |-> kind, site |-> id, val |-> val, prompt |-> 0])
        BY <3>3 DEF Emit
      <4>2. Len(wire') = Len(wire) + 1 /\ \A j \in 1..Len(wire) : wire'[j] = wire[j]
        BY <4>1
      <4>3. wire'[Len(wire) + 1].prompt = 0
        BY <4>1
      <4>4. connects[n].prompt # 0
        BY <1>1, <3>1
      <4>5. WireTrue(n) /\ Len(wire) \in Nat
        BY <3>1, LenProperties DEF Prompts
      <4>6. SUFFICES ASSUME NEW j \in 1..Len(wire'), wire'[j].prompt = connects'[n].prompt
                     PROVE  wire'[j].site = connects'[n].site /\ wire'[j].val = connects'[n].key
        BY DEF WireTrue
      <4>7. j \in 1..Len(wire)
        BY <3>1, <4>2, <4>3, <4>4, <4>5, <4>6
      <4>8. QED BY <3>1, <4>2, <4>5, <4>6, <4>7 DEF WireTrue
    <3>4. ASSUME wire # <<>>, wire' = Tail(wire) PROVE WireTrue(n)'
      <4>1. Len(wire') = Len(wire) - 1 /\ \A j \in 1..Len(wire') : wire'[j] = wire[j + 1]
        BY <3>4, HeadTailProperties
      <4>2. QED BY <3>1, <4>1 DEF WireTrue, Prompts
    <3>5. ASSUME wire' = wire PROVE WireTrue(n)'
      BY <3>1, <3>5 DEF WireTrue, Prompts
    <3>6. QED BY <1>2, <3>2, <3>3, <3>4, <3>5 DEF Quiet, WireMoves
  <2>3. ASSUME NEW n \in Connects, connects'[n].at = "pin"
        PROVE  <<connects'[n].site, connects'[n].key>> \in trusted'
    BY <1>2, <2>3 DEF Quiet, SameAsking, Prompts, Asking
  <2>4. QED BY <2>1, <2>2, <2>3 DEF Prompts
<1>3. ASSUME SameAsking, OnHostKey PROVE Prompts'
  <2>1. UNCHANGED <<waiting, trusted>>
    BY <1>3 DEF OnHostKey
  <2>2. PromptOwned'
    BY <1>3, <2>1, OwnedStays DEF Prompts
  <2>3. /\ wire # <<>> /\ Len(wire) \in Nat /\ Len(wire) > 0 /\ Head(wire) = wire[1]
        /\ wire' = Tail(wire) /\ Len(wire') = Len(wire) - 1
        /\ \A j \in 1..Len(wire') : wire'[j] = wire[j + 1]
    BY <1>3, HeadTailProperties, LenProperties DEF OnHostKey, Receives
  <2>4. Head(wire) \in Event /\ Head(wire).kind = "hostkey"
    BY <1>3, HeadTailProperties DEF OnHostKey, Receives
  <2> DEFINE d == [prompt |-> Head(wire).prompt, site |-> Head(wire).site, key |-> Head(wire).val]
  <2>5. d \in Dialog
    BY <2>4 DEF Event, Dialog
  <2>6. dialogs' = Append(dialogs, d)
    BY <1>3 DEF OnHostKey
  <2>7. d.prompt = wire[1].prompt /\ d.site = wire[1].site /\ d.key = wire[1].val
    BY <2>3
  <2> HIDE DEF d
  <2>8. /\ Len(dialogs') = Len(dialogs) + 1 /\ dialogs'[Len(dialogs) + 1] = d
        /\ \A j \in 1..Len(dialogs) : dialogs'[j] = dialogs[j]
    BY <2>5, <2>6, AppendProperties
  <2>9. ASSUME NEW n \in Connects, Asking(n)'
        PROVE  DialogTrue(n)' /\ WireTrue(n)' /\ AnswerTrue(n)'
    <3>1. Asking(n) /\ connects'[n] = connects[n]
      BY <1>3, <2>9 DEF SameAsking
    <3>2. DialogTrue(n) /\ WireTrue(n) /\ AnswerTrue(n)
      BY <3>1 DEF Prompts
    <3>3. AnswerTrue(n)'
      BY <2>1, <3>1, <3>2 DEF AnswerTrue
    <3>4. WireTrue(n)'
      BY <2>3, <3>1, <3>2 DEF WireTrue
    <3>5. DialogTrue(n)'
      <4>1. SUFFICES ASSUME NEW j \in 1..Len(dialogs'), dialogs'[j].prompt = connects'[n].prompt
                     PROVE  dialogs'[j].site = connects'[n].site /\ dialogs'[j].key = connects'[n].key
        BY DEF DialogTrue
      <4>2. Len(dialogs) \in Nat
        BY LenProperties
      <4>3. CASE j = Len(dialogs) + 1
        BY <2>3, <2>7, <2>8, <3>1, <3>2, <4>1, <4>3 DEF WireTrue
      <4>4. CASE j # Len(dialogs) + 1
        <5>1. j \in 1..Len(dialogs)
          BY <2>8, <4>2, <4>4
        <5>2. QED BY <2>8, <3>1, <3>2, <4>1, <5>1 DEF DialogTrue
      <4>5. QED BY <4>3, <4>4
    <3>6. QED BY <3>3, <3>4, <3>5
  <2>10. \A n \in Connects : connects'[n].at = "pin" => <<connects'[n].site, connects'[n].key>> \in trusted'
    BY <1>3, <2>1 DEF SameAsking, Prompts, Asking
  <2>11. QED BY <2>2, <2>9, <2>10 DEF Prompts
<1>4. ASSUME SameAsking, NEW answer \in {"trust", "deny"}, AnswerHostKey(answer) PROVE Prompts'
  <2> DEFINE top == Head(dialogs)
             Answered(w) == IF w.prompt = top.prompt THEN [w EXCEPT !.answer = answer] ELSE w
  <2>1. /\ dialogs # <<>> /\ dialogs' = Tail(dialogs) /\ wire' = wire
        /\ trusted' = IF answer = "trust" THEN trusted \cup {<<top.site, top.key>>} ELSE trusted
        /\ waiting' = {Answered(w) : w \in waiting}
    BY <1>4 DEF AnswerHostKey
  <2>2. /\ Len(dialogs) \in Nat /\ Len(dialogs) > 0 /\ top = dialogs[1] /\ Len(dialogs') = Len(dialogs) - 1
        /\ \A j \in 1..Len(dialogs') : dialogs'[j] = dialogs[j + 1]
    BY <2>1, HeadTailProperties, LenProperties
  <2>3. \A w \in waiting : Answered(w).prompt = w.prompt
    BY DEF Prompt
  <2>4. \A w \in waiting : Answered(w).answer = IF w.prompt = top.prompt THEN answer ELSE w.answer
    BY DEF Prompt
  <2> HIDE DEF Answered, top
  <2>5. PromptOwned'
    <3>1. \A w \in waiting : \E v \in waiting' : v.prompt = w.prompt
      BY <2>1, <2>3
    <3>2. \A v \in waiting' : \E w \in waiting : w.prompt = v.prompt
      BY <2>1, <2>3
    <3>3. QED BY <1>4, <3>1, <3>2, OwnedStays DEF Prompts
  <2>6. ASSUME NEW n \in Connects, Asking(n)'
        PROVE  DialogTrue(n)' /\ WireTrue(n)' /\ AnswerTrue(n)'
    <3>1. Asking(n) /\ connects'[n] = connects[n]
      BY <1>4, <2>6 DEF SameAsking
    <3>2. DialogTrue(n) /\ WireTrue(n) /\ AnswerTrue(n)
      BY <3>1 DEF Prompts
    <3>3. DialogTrue(n)'
      BY <2>2, <3>1, <3>2 DEF DialogTrue
    <3>4. WireTrue(n)'
      BY <2>1, <3>1, <3>2 DEF WireTrue
    <3>5. top.prompt = connects[n].prompt => top.site = connects[n].site /\ top.key = connects[n].key
      BY <2>2, <3>2 DEF DialogTrue
    <3>6. ASSUME NEW w \in waiting, w.prompt = connects[n].prompt, Answered(w).answer = "trust"
          PROVE  <<connects[n].site, connects[n].key>> \in trusted'
      BY <2>1, <2>4, <3>2, <3>5, <3>6 DEF AnswerTrue
    <3>7. AnswerTrue(n)'
      <4>1. SUFFICES ASSUME NEW v \in waiting', v.prompt = connects'[n].prompt, v.answer = "trust"
                     PROVE  <<connects'[n].site, connects'[n].key>> \in trusted'
        BY DEF AnswerTrue
      <4>2. PICK w \in waiting : v = Answered(w)
        BY <2>1
      <4>3. QED BY <2>3, <3>1, <3>6, <4>1, <4>2
    <3>8. QED BY <3>3, <3>4, <3>7
  <2>7. \A n \in Connects : connects'[n].at = "pin" => <<connects'[n].site, connects'[n].key>> \in trusted'
    BY <1>4, <2>1 DEF SameAsking, Prompts, Asking
  <2>8. QED BY <2>5, <2>6, <2>7 DEF Prompts
<1>5. ASSUME NEW n \in Connects, NEW k \in Keys, Asks(n, k) PROVE Prompts'
  <2> DEFINE w == [prompt |-> NewPrompt, answer |-> "none"]
             e == [kind |-> "hostkey", site |-> connects[n].site, val |-> k, prompt |-> NewPrompt]
  <2>1. /\ NewPrompt \in Nat \ {0} /\ \A v \in waiting : v.prompt # NewPrompt
        /\ \A j \in 1..Len(dialogs) : dialogs[j].prompt # NewPrompt
        /\ \A j \in 1..Len(wire) : wire[j].prompt # NewPrompt
    BY NewPromptIsNew
  <2>2. /\ waiting' = waiting \cup {w} /\ wire' = Append(wire, e) /\ UNCHANGED <<dialogs, trusted>>
        /\ connects[n].at = "dial"
    BY <1>5 DEF Asks, Emit
  <2>3. /\ w.prompt = NewPrompt /\ w.answer = "none"
        /\ e.prompt = NewPrompt /\ e.site = connects[n].site /\ e.val = k
    OBVIOUS
  <2> HIDE DEF w, e
  <2>4. /\ connects'[n].at = "asking" /\ connects'[n].key = k /\ connects'[n].prompt = NewPrompt
        /\ connects'[n].site = connects[n].site
    BY <1>5 DEF Asks, Connecting
  <2>5. \A m \in Connects : m # n => connects'[m] = connects[m]
    BY <1>5 DEF Asks
  <2>6. \A m \in Connects : Asking(m) => m # n /\ connects[m].prompt # NewPrompt
    BY <2>1, <2>2 DEF Prompts, PromptOwned, Asking
  <2>7. PromptOwned'
    <3>0. PromptOwned
      BY DEF Prompts
    <3>1. ASSUME NEW m \in Connects, Asking(m)'
          PROVE  \E v \in waiting' : v.prompt = connects'[m].prompt
      <4>1. CASE m = n
        BY <2>2, <2>3, <2>4, <4>1
      <4>2. CASE m # n
        BY <2>2, <2>5, <3>0, <3>1, <4>2 DEF PromptOwned, Asking
      <4>3. QED BY <4>1, <4>2
    <3>2. ASSUME NEW m \in Connects, ~Asking(m)' PROVE connects'[m].prompt = 0
      BY <2>4, <2>5, <3>0, <3>2 DEF PromptOwned, Asking
    <3>3. ASSUME NEW v \in waiting' PROVE \E m \in Connects : Asking(m)' /\ connects'[m].prompt = v.prompt
      <4>1. CASE v = w
        BY <2>3, <2>4, <4>1 DEF Asking
      <4>2. CASE v # w
        <5>1. PICK m \in Connects : Asking(m) /\ connects[m].prompt = v.prompt
          BY <2>2, <3>0, <4>2 DEF PromptOwned
        <5>2. QED BY <2>5, <2>6, <5>1 DEF Asking
      <4>3. QED BY <4>1, <4>2
    <3>4. ASSUME NEW j \in Connects, NEW m \in Connects, Asking(j)', Asking(m)',
                 connects'[j].prompt = connects'[m].prompt
          PROVE  j = m
      BY <2>4, <2>5, <2>6, <3>0, <3>4 DEF PromptOwned, Asking
    <3>5. QED BY <3>1, <3>2, <3>3, <3>4 DEF PromptOwned
  <2>8. Len(wire') = Len(wire) + 1 /\ wire'[Len(wire) + 1] = e /\ \A j \in 1..Len(wire) : wire'[j] = wire[j]
    BY <2>2
  <2>9. ASSUME NEW m \in Connects, Asking(m)'
        PROVE  DialogTrue(m)' /\ WireTrue(m)' /\ AnswerTrue(m)'
    <3>1. CASE m = n
      BY <2>1, <2>2, <2>3, <2>4, <2>8, <3>1 DEF DialogTrue, WireTrue, AnswerTrue
    <3>2. CASE m # n
      <4>1. Asking(m) /\ connects'[m] = connects[m]
        BY <2>5, <2>9, <3>2 DEF Asking
      <4>2. DialogTrue(m) /\ WireTrue(m) /\ AnswerTrue(m)
        BY <4>1 DEF Prompts
      <4>3. DialogTrue(m)'
        BY <2>2, <4>1, <4>2 DEF DialogTrue
      <4>4. AnswerTrue(m)'
        BY <2>2, <2>3, <4>1, <4>2 DEF AnswerTrue
      <4>5. ASSUME NEW j \in 1..Len(wire'), wire'[j].prompt = connects'[m].prompt
            PROVE  wire'[j].site = connects'[m].site /\ wire'[j].val = connects'[m].key
        <5>1. Len(wire) \in Nat
          BY LenProperties
        <5>2. j \in 1..Len(wire)
          BY <2>3, <2>6, <2>8, <4>1, <4>5, <5>1
        <5>3. QED BY <2>8, <4>1, <4>2, <4>5, <5>2 DEF WireTrue
      <4>6. QED BY <4>3, <4>4, <4>5 DEF WireTrue
    <3>3. QED BY <3>1, <3>2
  <2>10. \A m \in Connects : connects'[m].at = "pin" => <<connects'[m].site, connects'[m].key>> \in trusted'
    BY <2>2, <2>4, <2>5 DEF Prompts
  <2>11. QED BY <2>7, <2>9, <2>10 DEF Prompts
<1>6. ASSUME NEW n \in Connects, NEW at \in {"error", "pin"}, EndsAsking(n, at),
             at = "pin" => <<connects[n].site, connects[n].key>> \in trusted
      PROVE  Prompts'
  <2>1. /\ connects'[n].at = at /\ connects'[n].prompt = 0
        /\ connects'[n].site = connects[n].site /\ connects'[n].key = connects[n].key
    BY <1>6 DEF EndsAsking, Ends, Connecting
  <2>2. \A m \in Connects : m # n => connects'[m] = connects[m]
    BY <1>6 DEF EndsAsking, Ends
  <2>3. Asking(n) /\ UNCHANGED <<wire, dialogs, trusted>>
        /\ waiting' = {w \in waiting : w.prompt # connects[n].prompt}
    BY <1>6 DEF EndsAsking, Forget
  <2>4. \A m \in Connects : Asking(m)' => m # n /\ Asking(m) /\ connects'[m] = connects[m]
    BY <2>1, <2>2 DEF Asking
  <2>5. PromptOwned'
    <3>0. PromptOwned
      BY DEF Prompts
    <3>1. \A m \in Connects : m # n /\ Asking(m) => connects[m].prompt # connects[n].prompt
      BY <2>3, <3>0 DEF PromptOwned
    <3>2. ASSUME NEW m \in Connects, Asking(m)'
          PROVE  \E v \in waiting' : v.prompt = connects'[m].prompt
      BY <2>3, <2>4, <3>0, <3>1, <3>2 DEF PromptOwned
    <3>3. ASSUME NEW m \in Connects, ~Asking(m)' PROVE connects'[m].prompt = 0
      BY <2>1, <2>2, <3>0, <3>3 DEF PromptOwned, Asking
    <3>4. ASSUME NEW v \in waiting' PROVE \E m \in Connects : Asking(m)' /\ connects'[m].prompt = v.prompt
      <4>1. PICK m \in Connects : Asking(m) /\ connects[m].prompt = v.prompt
        BY <2>3, <3>0 DEF PromptOwned
      <4>2. m # n
        BY <2>3, <4>1
      <4>3. QED BY <2>2, <4>1, <4>2 DEF Asking
    <3>5. ASSUME NEW j \in Connects, NEW m \in Connects, Asking(j)', Asking(m)',
                 connects'[j].prompt = connects'[m].prompt
          PROVE  j = m
      BY <2>4, <3>0, <3>5 DEF PromptOwned
    <3>6. QED BY <3>2, <3>3, <3>4, <3>5 DEF PromptOwned
  <2>6. ASSUME NEW m \in Connects, Asking(m)'
        PROVE  DialogTrue(m)' /\ WireTrue(m)' /\ AnswerTrue(m)'
    <3>1. Asking(m) /\ connects'[m] = connects[m]
      BY <2>4, <2>6
    <3>2. DialogTrue(m) /\ WireTrue(m) /\ AnswerTrue(m)
      BY <3>1 DEF Prompts
    <3>3. QED BY <2>3, <3>1, <3>2 DEF DialogTrue, WireTrue, AnswerTrue
  <2>7. \A m \in Connects : connects'[m].at = "pin" => <<connects'[m].site, connects'[m].key>> \in trusted'
    BY <1>6, <2>1, <2>2, <2>3 DEF Prompts
  <2>8. QED BY <2>5, <2>6, <2>7 DEF Prompts
<1>7. ASSUME NEW n \in Connects, NEW w \in waiting, w.prompt = connects[n].prompt, w.answer = "trust",
             EndsAsking(n, "pin")
      PROVE  Prompts'
  <2>1. <<connects[n].site, connects[n].key>> \in trusted
    BY <1>7 DEF EndsAsking, Prompts, AnswerTrue
  <2>2. QED BY <1>6, <1>7, <2>1
<1>8. QED BY <1>2, <1>3, <1>4, <1>5, <1>6, <1>7, AskMoves

-----------------------------------------------------------------------------
(* The theorems.                                                           *)

\* It holds at the start.
LEMMA InitIInv == Init => IInv
<1> SUFFICES ASSUME Init PROVE IInv OBVIOUS
<1>1. Prompts
  BY DEF Init, Idle, Prompts, PromptOwned, Asking
<1>2. Crossed
  BY DEF Init, Crossed, PurgedTreeStaysPurged
<1>3. QED BY <1>1, <1>2, InitTypes, InitConnections DEF IInv

\* The inductive invariant holds of every behaviour.
THEOREM Invariance == Spec => []IInv
<1>1. IInv /\ [Next]_vars => IInv'
  BY DbTypesStep, SessionTypesStep, PromptTypesStep, ScreenStep, ClientsOwnedStep, KeepersOwnedStep,
     PromptsStep DEF IInv, Types, Finite, Connections
<1>2. QED BY InitIInv, <1>1, PTL DEF Spec

\* Types, and that a connection, a keepAlive and a prompt each have a number of
\* their own, however many dials, listings and pings overlap.
THEOREM TypeCorrect == Spec => []TypeOK
<1>1. IInv => TypeOK
  <2> SUFFICES ASSUME IInv PROVE TypeOK OBVIOUS
  <2> USE DEF IInv, Types
  <2>1. /\ sites \subseteq SiteIds /\ queued \subseteq sites /\ listed \subseteq SiteIds
        /\ pins \in [SiteIds -> Keys \cup {0}]
        /\ children \in [SiteIds -> {"none", "read", "old"}] /\ failed \subseteq SiteIds
        /\ expanded \subseteq Panes \X SiteIds
    BY DEF DbTypes, ScreenTypes
  <2>2. /\ \A k \in clients : k.site \in SiteIds /\ k.up \in BOOLEAN
        /\ \A n \in Connects : connects[n].site \in SiteIds \cup {0}
    BY DEF SessionTypes, Client, Connecting
  <2>3. /\ \A j, k \in clients : j.c = k.c => j = k
        /\ \A j, k \in keepers : j.c = k.c => j = k
        /\ \A id \in SiteIds : sessions[id] = 0 \/ \E k \in clients : k.c = sessions[id] /\ k.site = id
    BY DEF Connections, ClientsOwned, KeepersOwned
  <2>4. \A w \in waiting : \E n \in Connects : connects[n].prompt = w.prompt
    BY DEF Prompts, PromptOwned
  <2>5. QED BY <2>1, <2>2, <2>3, <2>4 DEF TypeOK
<1>2. QED BY <1>1, Invariance, PTL

\* No connection is left open that nobody can close: whatever ConnectSite,
\* DisconnectSite, DeleteSite, listings and pings overlap, an open client is the
\* registered one of its site or about to be installed or discarded.
THEOREM NothingLeaks == Spec => []NoLeakedSession
<1>1. IInv => NoLeakedSession
  BY DEF IInv, Connections, ClientsOwned
<1>2. QED BY <1>1, Invariance, PTL

\* The folder tree never keeps an answer that was under way when the connection
\* of its site came, went or failed.
THEOREM PurgesHold == Spec => []PurgedTreeStaysPurged
<1>1. IInv => PurgedTreeStaysPurged
  BY DEF IInv, Crossed
<1>2. QED BY <1>1, Invariance, PTL

\* dropSession removes the session its caller saw dead and no later one: a
\* working session goes only by the call of DisconnectSite or DeleteSite.
THEOREM WorkingSessionsStay == Spec => WorkingSessionStays
<1> DEFINE Stays == \A id \in SiteIds :
                      sessions[id] # 0 /\ Up(sessions[id]) /\ sessions'[id] # sessions[id]
                        => call # NoCall /\ call.site = id /\ call' # call
<1>1. ASSUME Types, [Next]_vars PROVE Stays
  <2> USE <1>1 DEF Types, SessionTypes
  <2>1. ASSUME sessions' = sessions PROVE Stays
    BY <2>1
  <2>2. ASSUME NEW site \in SiteIds, ~Up(sessions[site]), Unregister(site, sessions[site]) PROVE Stays
    BY <2>2 DEF Unregister
  <2>3. ASSUME NEW n \in Connects, Probe(n) PROVE Stays
    <3>1. connects[n].site \in SiteIds
      BY <2>3 DEF Probe
    <3> HIDE DEF Stays
    <3>2. QED BY <2>1, <2>2, <2>3, <3>1 DEF Probe, DropSession, sessionVars
  <2>4. ASSUME NEW n \in Connects, Install(n) PROVE Stays
    <3>1. sessions' = sessions \/ (/\ sessions[connects[n].site] = 0
                                   /\ sessions' = [sessions EXCEPT ![connects[n].site] = connects[n].client])
      BY <2>4 DEF Install
    <3>2. QED BY <3>1
  <2>5. ASSUME NEW k \in keepers, KeepAlive(k) PROVE Stays
    <3>1. k.site \in SiteIds
      BY DEF Keeper
    <3> HIDE DEF Stays
    <3>2. QED BY <2>1, <2>2, <2>5, <3>1 DEF KeepAlive, DropSession, sessionVars
  <2>6. ASSUME NEW l \in lists, ListRemote(l) PROVE Stays
    <3>1. l.site \in SiteIds
      BY DEF ScreenTypes, Listing
    <3> HIDE DEF Stays
    <3>2. QED BY <2>1, <2>2, <2>6, <3>1 DEF ListRemote, DropSession, sessionVars
  <2>7. ASSUME Hangup PROVE Stays
    <3>1. call.at = "hangup"
      BY <2>7 DEF Hangup
    <3>2. call # NoCall
      BY <3>1 DEF NoCall
    <3>3. PICK next \in CallAt \ {"hangup"} : call' = [call EXCEPT !.at = next]
      BY <2>7 DEF Hangup, CallAt
    <3>4. call'.at # call.at
      BY <3>1, <3>3
    <3>5. sessions' = sessions \/ sessions' = [sessions EXCEPT ![call.site] = 0]
      BY <2>7 DEF Hangup, Unregister, sessionVars
    <3>6. QED BY <3>2, <3>4, <3>5
  <2>8. ASSUME NEW n \in Connects, ConnectSite(n), ~Probe(n), ~Install(n) PROVE sessions' = sessions
    BY <2>8 DEF ConnectSite, Look, SayDropped, Load, DialFails, AskReturns, AskTimesOut, Pin, LogIn,
       SayOutcome, Present, sessionVars
  <2>9. ASSUME ConnectionDies \/ SayHangup \/ FindSite \/ EraseSite \/ InsertSite \/ CallReturns
        PROVE  sessions' = sessions
    BY <2>9 DEF ConnectionDies, SayHangup, FindSite, EraseSite, InsertSite, CallReturns, sessionVars
  <2>10. ASSUME Frontend \/ User PROVE sessions' = sessions
    BY <2>10 DEF Frontend, OnConnState, OnFsChanged, OnHostKey, ListLands, ScreenFrame, User, UserFrame,
       sessionVars
  <2>11. ASSUME UNCHANGED vars PROVE sessions' = sessions
    BY <2>11 DEF vars, sessionVars
  <2> HIDE DEF Stays
  <2>12. QED BY <2>1, <2>3, <2>4, <2>5, <2>6, <2>7, <2>8, <2>9, <2>10, <2>11 DEF Next, Backend
<1>2. IInv /\ [Next]_vars => [Stays]_vars
  BY <1>1 DEF IInv
<1>3. QED BY <1>2, Invariance, PTL DEF Spec, WorkingSessionStays

\* A pin is written only for a key the user saw with its site and trusted: never
\* by the timeout, the answer to another prompt or a second dial.
THEOREM PinsAreAsked == Spec => NoPinUnasked
<1> DEFINE Asked == \A id \in SiteIds : pins'[id] \notin {pins[id], 0} => <<id, pins'[id]>> \in trusted
<1>1. ASSUME Types, Prompts, [Next]_vars PROVE Asked
  <2> USE <1>1 DEF Types, DbTypes
  <2>1. ASSUME pins' = pins PROVE Asked
    BY <2>1
  <2>2. ASSUME NEW n \in Connects, Pin(n) PROVE Asked
    <3>1. connects[n].at = "pin"
      BY <2>2 DEF Pin
    <3>2. <<connects[n].site, connects[n].key>> \in trusted
      BY <3>1 DEF Prompts
    <3>3. pins' = pins \/ pins' = [pins EXCEPT ![connects[n].site] = connects[n].key]
      BY <2>2 DEF Pin
    <3>4. QED BY <3>2, <3>3
  <2>3. ASSUME EraseSite PROVE Asked
    BY <2>3 DEF EraseSite
  <2>4. ASSUME NEW n \in Connects, ConnectSite(n), ~Pin(n) PROVE pins' = pins
    BY <2>4 DEF ConnectSite, Look, Probe, SayDropped, Load, DialFails, AskReturns, AskTimesOut, LogIn,
       Install, SayOutcome, Present, BackFrame, dbVars
  <2>5. ASSUME Backend, ~EraseSite, \A n \in Connects : ~ConnectSite(n) PROVE pins' = pins
    BY <2>5 DEF Backend, ConnectionDies, KeepAlive, ListRemote, Hangup, SayHangup, FindSite, InsertSite,
       CallReturns, BackFrame, dbVars
  <2>6. ASSUME Frontend \/ User PROVE pins' = pins
    BY <2>6 DEF Frontend, OnConnState, OnFsChanged, OnHostKey, ListLands, ScreenFrame, User, UserFrame,
       dbVars
  <2>7. ASSUME UNCHANGED vars PROVE pins' = pins
    BY <2>7 DEF vars, dbVars
  <2> HIDE DEF Asked
  <2>8. QED BY <2>1, <2>2, <2>3, <2>4, <2>5, <2>6, <2>7 DEF Next, Backend
<1>2. IInv /\ [Next]_vars => [Asked]_vars
  BY <1>1 DEF IInv
<1>3. QED BY <1>2, Invariance, PTL DEF Spec, NoPinUnasked
=============================================================================
