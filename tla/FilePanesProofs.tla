-------------------------- MODULE FilePanesProofs --------------------------
(***************************************************************************)
(* Proofs about the file panes: their types; that a pane catches up with   *)
(* its folder; that "up" lands on the folder left; that operations name    *)
(* rows of the listing held; that the user's sort beats the stored one.   *)
(*                                                                         *)
(* IInv is inductive.  Its step lemma goes by what a step does to a pane:  *)
(* it leads it somewhere (LeadStep), leaves it still (StillStep), or is a  *)
(* change on disk, an event, a reading or its landing.                     *)
(***************************************************************************)
EXTENDS FilePanes, FiniteSetTheorems, SequenceTheorems, TLAPS

-----------------------------------------------------------------------------
(* The rows of a pane.                                                     *)

\* Ranked is a strict total order on names: two entries never rank alike.
LEMMA RankedIsAnOrder ==
  ASSUME NEW by \in SortState
  PROVE  /\ \A a \in Names : ~Ranked(by, a, a)
         /\ \A a, b \in Names : a # b => Ranked(by, a, b) \/ Ranked(by, b, a)
         /\ \A a, b, c \in Names : Ranked(by, a, b) /\ Ranked(by, b, c) => Ranked(by, a, c)
<1>1. /\ by.key \in SortKey /\ by.desc \in BOOLEAN
      /\ \A a \in Names : a \in Nat /\ Date[a] \in Nat /\ (a \in Folders <=> a \notin Files)
      /\ \A a \in Files : Size[a] \in Nat /\ a \in Names
  BY NameAssumption, ColumnAssumption DEF SortState, Names
<1>2. CASE by.key = "modTime"
  BY <1>1, <1>2 DEF Ranked
<1>3. CASE by.key = "size"
  BY <1>1, <1>3 DEF Ranked
<1>4. CASE by.key = "name"
  BY <1>1, <1>4 DEF Ranked
<1> QED BY <1>1, <1>2, <1>3, <1>4 DEF SortKey

\* An entry's place is one of the rows, later than those of entries before it.
LEMMA PlacesAreRows ==
  ASSUME NEW by \in SortState, NEW S \in SUBSET Names
  PROVE  /\ Cardinality(S) \in Nat
         /\ \A n \in S : Place(S, by, n) \in 1..Cardinality(S)
         /\ \A a, b \in S : Ranked(by, a, b) => Place(S, by, a) < Place(S, by, b)
<1> DEFINE F(n) == {m \in S : Ranked(by, m, n)}
<1>1. IsFiniteSet(S) /\ Cardinality(S) \in Nat
  BY NameAssumption, FS_Subset, FS_CardinalityType
<1>2. ASSUME NEW T \in SUBSET S
      PROVE  /\ IsFiniteSet(T) /\ Cardinality(T) \in Nat
             /\ \A U \in SUBSET T : U # T => Cardinality(U) \in Nat /\ Cardinality(U) < Cardinality(T)
  <2>1. IsFiniteSet(T) /\ Cardinality(T) \in Nat
    BY <1>1, FS_Subset, FS_CardinalityType
  <2>2. ASSUME NEW U \in SUBSET T, U # T
        PROVE  Cardinality(U) \in Nat /\ Cardinality(U) < Cardinality(T)
    BY <2>1, <2>2, FS_Subset, FS_CardinalityType
  <2> QED BY <2>1, <2>2
<1>3. ASSUME NEW n \in S PROVE Cardinality(F(n)) \in Nat /\ Cardinality(F(n)) < Cardinality(S)
  <2>1. F(n) \in SUBSET S /\ F(n) # S
    BY RankedIsAnOrder
  <2> QED BY <1>2, <2>1
<1>4. ASSUME NEW a \in S, NEW b \in S, Ranked(by, a, b)
      PROVE  Cardinality(F(a)) < Cardinality(F(b))
  <2>1. a \in F(b) /\ a \notin F(a)
    BY <1>4, RankedIsAnOrder
  <2>2. ASSUME NEW m \in F(a) PROVE m \in F(b)
    BY <1>4, RankedIsAnOrder
  <2>3. F(a) \in SUBSET F(b) /\ F(a) # F(b) /\ F(b) \in SUBSET S
    BY <2>1, <2>2
  <2> QED BY <1>2, <2>3
<1>5. \A n \in S : Place(S, by, n) = Cardinality(F(n)) + 1
  BY DEF Place
<1> HIDE DEF F
<1>6. \A n \in S : Place(S, by, n) \in 1..Cardinality(S)
  BY <1>1, <1>3, <1>5
<1>7. \A a, b \in S : Ranked(by, a, b) => Place(S, by, a) < Place(S, by, b)
  BY <1>3, <1>4, <1>5
<1> QED BY <1>1, <1>6, <1>7

\* The rows are the entries, each once, in order.
LEMMA EntriesAreSorted ==
  ASSUME NEW by \in SortState, NEW S \in SUBSET Names
  PROVE  LET rows == SortEntries(S, by) IN
         /\ rows \in Seq(S) /\ Len(rows) = Cardinality(S) /\ ToSet(rows) = S
         /\ \A i, j \in 1..Len(rows) : i < j => Ranked(by, rows[i], rows[j])
<1> DEFINE rows == SortEntries(S, by)
           N == Cardinality(S)
           P(n) == Place(S, by, n)
           f == [n \in S |-> P(n)]
<1>1. /\ N \in Nat /\ \A n \in S : P(n) \in 1..N
      /\ \A a, b \in S : Ranked(by, a, b) => P(a) < P(b)
  BY PlacesAreRows
<1>2. \A a, b \in S : a # b => P(a) # P(b)
  BY <1>1, RankedIsAnOrder
<1>3. \A k \in 1..N : \E n \in S : P(n) = k
  <2>1. f \in [S -> 1..N] /\ \A a, b \in S : f[a] = f[b] => a = b
    BY <1>1, <1>2
  <2>2. f \in Injection(S, 1..N)
    BY <2>1 DEF Injection, IsInjective
  <2>3. IsFiniteSet(1..N) /\ Cardinality(1..N) = N
    BY <1>1, FS_Interval
  <2>4. f \in Surjection(S, 1..N)
    BY <2>2, <2>3, FS_Injection
  <2> QED BY <2>4 DEF Surjection
<1>4. rows = [k \in 1..N |-> CHOOSE n \in S : P(n) = k]
  BY DEF SortEntries
<1>5. \A k \in 1..N : rows[k] \in S /\ P(rows[k]) = k
  BY <1>3, <1>4
<1>6. rows \in Seq(S) /\ Len(rows) = N /\ DOMAIN rows = 1..N
  BY <1>1, <1>4, <1>5
<1>7. \A n \in S : n = rows[P(n)]
  BY <1>1, <1>2, <1>5
<1> HIDE DEF rows, N, P
<1>8. ToSet(rows) = S
  BY <1>1, <1>5, <1>6, <1>7 DEF ToSet
<1>9. ASSUME NEW i \in 1..N, NEW j \in 1..N, i < j PROVE Ranked(by, rows[i], rows[j])
  <2>1. rows[i] \in S /\ rows[j] \in S /\ P(rows[i]) < P(rows[j])
    BY <1>5, <1>9
  <2>2. rows[i] # rows[j] /\ ~Ranked(by, rows[j], rows[i])
    BY <1>1, <1>5, <1>9, <2>1
  <2> QED BY <2>1, <2>2, RankedIsAnOrder
<1> QED BY <1>6, <1>8, <1>9 DEF rows, N
-----------------------------------------------------------------------------
(* The inductive invariant.                                                *)

PaneRec == [source : Sources, path : scene.paths \cup {NoPath}]
ListingRec == [source : Sources, path : scene.paths, names : SUBSET Names]
LoadRec == [nonce : Nat \ {0}, at : {"sent", "listed", "failed"}, source : Sources,
            path : scene.paths, names : SUBSET Names]
NavRec == [loaded : ListingRec \cup {Nothing}, failure : Sources \cup {"none"}, nonce : Nat,
           stack : Seq(scene.paths), idx : Nat, travelling : BOOLEAN,
           leaving : scene.paths \cup {NoPath}]
MenuRec == [name : Names, path : scene.paths] \cup {NoMenu}
SelRec == [cursor : Nat \ {0}, anchor : Nat \ {0}, marks : SUBSET Names, filter : SUBSET Names,
           landOn : Nat, menu : MenuRec, bgMenu : BOOLEAN]
CallRec == [op : {"delete", "rename", "mkdir", "download", "upload"}, source : Sources,
            dir : Seq(Names), names : SUBSET Names, new : Names \cup {0}, side : Sides,
            at : {"sent", "ok", "failed"}]
AskRec == [op : {"delete", "rename", "mkdir"}, side : Sides, source : Sources, dir : Seq(Names),
           names : SUBSET Names]
EventRec == [source : Sources, dir : Seq(Names)]
DialRec == [side : Sides, source : Sources, from : Sources, kind : {"switch", "reconnect", "boot"}]

\* The paths of the backend are made of names, and a source keeps its root.
BackTypes ==
  /\ scene \in Scenes
  /\ DOMAIN disk = Sources
  /\ \A src \in Sources : disk[src] \subseteq Seq(Names) /\ Root \in disk[src]
  /\ wire \in Seq(EventRec)

NavTypes ==
  /\ panes \in [Sides -> PaneRec] /\ nav \in [Sides -> NavRec]
  /\ loads \in [Sides -> SUBSET LoadRec]
  /\ \A s \in Sides : nav[s].idx <= Len(nav[s].stack)
  /\ cache \in [[src : Sources, path : scene.paths] -> ListingRec \cup {Nothing}]
  /\ \A src \in Sources : \A p \in scene.paths :
       LET listing == cache[[src |-> src, path |-> p]] IN
       listing # Nothing => listing.source = src /\ listing.path = p
  /\ missed \in [Sides -> BOOLEAN] /\ timer \in [Sides -> BOOLEAN]
  /\ dials \subseteq DialRec

SelTypes == sel \in [Sides -> SelRec]

SortTypes ==
  /\ sort \in SortState /\ mirror \in SortState
  /\ hydration \in [at : {"reading", "read", "done"}, stored : SortState]

\* A question is of a pane that has been somewhere, and so is the call it ends in.
AskTypes ==
  /\ calls \subseteq CallRec
  /\ \A c \in calls : /\ c.op \in {"rename", "mkdir"} => c.new \in Names
                      /\ c.op \in {"delete", "rename", "mkdir"} => panes[c.side].path # NoPath
  /\ confirm \in AskRec \cup {NoAsk}
  /\ confirm # NoAsk => confirm.op = "delete" /\ panes[confirm.side].path # NoPath
  /\ prompt \in [Sides -> AskRec \cup {NoAsk}]
  /\ \A s \in Sides : prompt[s] # NoAsk =>
       prompt[s].op \in {"rename", "mkdir"} /\ prompt[s].side = s /\ panes[s].path # NoPath

\* A pane that has been nowhere shows nothing and awaits nothing.
Unplaced ==
  \A s \in Sides : panes[s].path = NoPath =>
     nav[s].loaded = Nothing /\ loads[s] = {} /\ ~timer[s] /\ nav[s].failure = "none"

\* The newest load is of the folder the pane is in; no two have one nonce.
Newest ==
  \A s \in Sides :
    /\ \A l \in loads[s] :
         /\ l.nonce <= nav[s].nonce
         /\ l.nonce = nav[s].nonce => l.source = panes[s].source /\ l.path = panes[s].path
    /\ \A l, m \in loads[s] : l.nonce = m.nonce => l = m

\* An open menu is of the folder on display.
MenuIsShown == \A s \in Sides : sel[s].menu # NoMenu => sel[s].menu.path = Shown(s).path

\* A change announced in a folder, below it or above it.
Touches(s, e) ==
  /\ e.source = panes[s].source
  /\ IsAtOrUnder(e.dir, panes[s].path) \/ IsAtOrUnder(panes[s].path, e.dir)
IsCurrent(s, listing) == listing.names = Children(panes[s].source, panes[s].path)

\* A pane shows its folder as it is, or something under way will make it.
Follows(s) ==
  \/ missed[s] \/ timer[s]
  \/ \E i \in DOMAIN wire : Touches(s, wire[i])
  \/ /\ \A l \in loads[s] : l.nonce = nav[s].nonce /\ l.at = "listed" => IsCurrent(s, l)
     /\ \/ Failed(s)
        \/ \E l \in loads[s] : l.nonce = nav[s].nonce
        \/ Shown(s).path = panes[s].path /\ IsCurrent(s, Shown(s))
Followed == \A s \in Sides : panes[s].path # NoPath => Follows(s)

\* A pane that goes up shows the folder it leaves, and will land on it, until
\* it shows the parent.
Leaving ==
  \A s \in Sides : LET left == nav[s].leaving IN left # NoPath =>
    /\ left # Root /\ panes[s].path = Parent(left) /\ nav[s].loaded.source = panes[s].source
    /\ \/ nav[s].loaded.path = Parent(left)
       \/ nav[s].loaded.path = left /\ sel[s].landOn = BaseName(left)

IInv ==
  /\ BackTypes /\ NavTypes /\ SelTypes /\ SortTypes /\ AskTypes
  /\ Unplaced /\ Newest /\ MenuIsShown /\ Followed /\ Leaving
-----------------------------------------------------------------------------
(* Paths, listings and rows.                                               *)

\* A path is at or under another if it begins with it.
LEMMA AtOrUnder ==
  ASSUME NEW S, NEW p \in Seq(S), NEW q \in Seq(S)
  PROVE  IsAtOrUnder(q, p) <=> Len(p) <= Len(q) /\ \A i \in 1..Len(p) : q[i] = p[i]
<1>1. Len(p) \in Nat /\ Len(q) \in Nat
  BY LenProperties
<1>2. SubSeq(p, 1, Len(p)) = p
  BY SubSeqFull
<1>3. CASE Len(p) <= Len(q)
  <2>1. \A i \in 1..Len(p) : q[i] \in S
    BY <1>1, <1>3, ElementOfSeq
  <2>2. /\ SubSeq(q, 1, Len(p)) \in Seq(S) /\ Len(SubSeq(q, 1, Len(p))) = Len(p)
        /\ \A i \in 1..Len(p) : SubSeq(q, 1, Len(p))[i] = q[i]
    BY <1>1, <2>1
  <2>3. SubSeq(q, 1, Len(p)) = p <=> \A i \in 1..Len(p) : q[i] = p[i]
    BY <2>2, SeqEqual
  <2> QED BY <1>2, <1>3, <2>3 DEF IsAtOrUnder, IsPrefix
<1>4. CASE ~(Len(p) <= Len(q))
  BY <1>4 DEF IsAtOrUnder, IsPrefix
<1> QED BY <1>3, <1>4

\* The folders of a scene are closed under going up; no folder is NoPath.
LEMMA FoldersOfScene ==
  ASSUME scene \in Scenes
  PROVE  /\ Root \in scene.paths /\ scene.paths \subseteq Seq(Names)
         /\ scene.lands \subseteq Seq(Names) /\ scene.sides \subseteq Sides
         /\ NoPath \notin Seq(Names) /\ NoPath \notin scene.paths /\ Root # NoPath
         /\ \A p \in scene.paths : \A k \in 0..Len(p) : SubSeq(p, 1, k) \in scene.paths
         /\ \A p \in scene.paths : p # Root => /\ Parent(p) \in scene.paths
                                               /\ BaseName(p) \in Names
<1>1. /\ Root \in scene.paths /\ scene.paths \subseteq Seq(Names)
      /\ scene.lands \subseteq Seq(Names) /\ scene.sides \subseteq Sides
      /\ \A p \in scene.paths : \A k \in 0..Len(p) : SubSeq(p, 1, k) \in scene.paths
  BY SceneAssumption
<1>2. NoPath \notin Seq(Names)
  <2> SUFFICES ASSUME NoPath \in Seq(Names) PROVE FALSE
    OBVIOUS
  <2>1. Len(NoPath) = 1 /\ NoPath[1] = 0
    BY DEF NoPath
  <2>2. 1 \in 1..Len(NoPath)
    BY <2>1
  <2>3. NoPath[1] \in Names
    BY <2>2, ElementOfSeq
  <2> QED BY <2>1, <2>3, NameAssumption
<1>3. ASSUME NEW p \in scene.paths, p # Root
      PROVE  Parent(p) \in scene.paths /\ BaseName(p) \in Names
  <2>1. p \in Seq(Names) /\ Len(p) \in Nat \ {0}
    BY <1>1, <1>3, EmptySeq DEF Root
  <2> QED BY <1>1, <2>1, ElementOfSeq DEF Parent, Front, BaseName, Last
<1> QED BY <1>1, <1>2, <1>3 DEF Root, NoPath

\* What a pane shows.
LEMMA WhatIsShown ==
  ASSUME scene \in Scenes, NavTypes, NEW s \in Sides
  PROVE  /\ panes[s] \in PaneRec /\ nav[s] \in NavRec
         /\ Shown(s) \in ListingRec \cup {Nothing} /\ Shown(s).names \subseteq Names
         /\ Shown(s).path \in scene.paths \cup {NoPath}
         /\ Shown(s) # Nothing => /\ Shown(s) = nav[s].loaded /\ Shown(s) \in ListingRec
                                  /\ nav[s].loaded.source = panes[s].source
                                  /\ Here(s) = Shown(s).path /\ Shown(s).path \in scene.paths
         /\ Shown(s) = Nothing => /\ Shown(s).path = NoPath /\ Shown(s).names = {}
                                  /\ Here(s) = panes[s].path
         /\ Shown(s) = Nothing <=> Shown(s).path = NoPath
<1>1. panes[s] \in PaneRec /\ nav[s] \in NavRec /\ nav[s].loaded \in ListingRec \cup {Nothing}
  BY DEF NavTypes, NavRec
<1>2. /\ Nothing.path = NoPath /\ Nothing.names = {} /\ Nothing.source = "none"
      /\ \A l \in ListingRec : l.path \in scene.paths /\ l.names \subseteq Names
  BY DEF Nothing, ListingRec
<1>3. Shown(s) = Nothing \/ (Shown(s) = nav[s].loaded /\ nav[s].loaded.source = panes[s].source)
  BY DEF Shown
<1> QED BY <1>1, <1>2, <1>3, FoldersOfScene DEF Here

\* Where an entry is in the rows.
LEMMA RowsOf ==
  ASSUME NEW names \in SUBSET Names, NEW filter \in SUBSET Names, NEW by \in SortState
  PROVE  LET rows == Rows(names, filter, by) IN
         /\ rows \in Seq(Names) /\ Len(rows) \in Nat /\ DOMAIN rows = 1..Len(rows)
         /\ ToSet(rows) = names \cap filter
         /\ \A k \in DOMAIN rows : rows[k] \in Names /\ rows[k] \in ToSet(rows)
         /\ \A n : IndexOf(rows, n) \in Nat
         /\ \A n \in ToSet(rows) : IndexOf(rows, n) \in DOMAIN rows /\ rows[IndexOf(rows, n)] = n
<1> DEFINE S == names \cap filter
           rows == SortEntries(S, by)
<1>1. rows \in Seq(S) /\ ToSet(rows) = S /\ S \in SUBSET Names
  BY EntriesAreSorted
<1> HIDE DEF rows
<1>2. rows \in Seq(Names) /\ Len(rows) \in Nat /\ DOMAIN rows = 1..Len(rows)
  BY <1>1, SeqMonotonic, LenProperties
<1>3. \A k \in DOMAIN rows : rows[k] \in Names /\ rows[k] \in ToSet(rows)
  BY <1>1, <1>2 DEF ToSet
<1>4. ASSUME NEW n \in ToSet(rows)
      PROVE  IndexOf(rows, n) \in DOMAIN rows /\ rows[IndexOf(rows, n)] = n
  <2>1. \E k \in DOMAIN rows : rows[k] = n
    BY DEF ToSet
  <2> QED BY <2>1 DEF IndexOf
<1>5. \A n : IndexOf(rows, n) \in Nat
  <2> SUFFICES ASSUME NEW n PROVE IndexOf(rows, n) \in Nat
    OBVIOUS
  <2>1. CASE n \in ToSet(rows)
    BY <1>2, <1>4, <2>1
  <2>2. CASE n \notin ToSet(rows)
    BY <2>2 DEF IndexOf
  <2> QED BY <2>1, <2>2
<1> QED BY <1>1, <1>2, <1>3, <1>4, <1>5 DEF Rows, rows

\* The rows on display, and the selection among them.
LEMMA RowsOnDisplay ==
  ASSUME scene \in Scenes, NavTypes, SelTypes, SortTypes, NEW s \in Sides
  PROVE  /\ sel[s] \in SelRec
         /\ Entries(s) \in Seq(Names) /\ Len(Entries(s)) \in Nat
         /\ DOMAIN Entries(s) = 1..Len(Entries(s))
         /\ ToSet(Entries(s)) \subseteq Shown(s).names /\ ToSet(Entries(s)) \subseteq Names
         /\ \A k \in DOMAIN Entries(s) : /\ Entries(s)[k] \in Names
                                         /\ Entries(s)[k] \in ToSet(Entries(s))
         /\ \A k \in DOMAIN Entries(s) : Shown(s) # Nothing
         /\ \A n \in ToSet(Entries(s)) : Shown(s) # Nothing
         /\ Entries(s) # <<>> => Len(Entries(s)) >= 1
         /\ Selection(s) \subseteq ToSet(Entries(s))
<1>1. sel[s] \in SelRec /\ sel[s].filter \in SUBSET Names /\ sort \in SortState
  BY DEF SelTypes, SelRec, SortTypes
<1>2. Shown(s).names \in SUBSET Names /\ (Shown(s) = Nothing => Shown(s).names = {})
  BY WhatIsShown
<1> DEFINE names == Shown(s).names
           filter == sel[s].filter
           rows == Rows(names, filter, sort)
<1>3. /\ rows \in Seq(Names) /\ Len(rows) \in Nat /\ DOMAIN rows = 1..Len(rows)
      /\ ToSet(rows) = names \cap filter
      /\ \A k \in DOMAIN rows : rows[k] \in Names /\ rows[k] \in ToSet(rows)
  <2>1. names \in SUBSET Names /\ filter \in SUBSET Names
    BY <1>1, <1>2
  <2> HIDE DEF names, filter
  <2> QED BY <1>1, <2>1, RowsOf
<1>4. rows = Entries(s)
  BY DEF Entries
<1> HIDE DEF rows
<1>5. Entries(s) # <<>> => Len(Entries(s)) >= 1
  BY <1>3, <1>4
<1>6. Selection(s) \subseteq ToSet(Entries(s))
  BY <1>3, <1>4 DEF Selection, SelectionOf
<1>7. /\ Entries(s) \in Seq(Names) /\ Len(Entries(s)) \in Nat
      /\ DOMAIN Entries(s) = 1..Len(Entries(s))
      /\ ToSet(Entries(s)) = Shown(s).names \cap sel[s].filter
      /\ \A k \in DOMAIN Entries(s) : Entries(s)[k] \in Names /\ Entries(s)[k] \in ToSet(Entries(s))
  BY <1>3, <1>4
<1>8. ToSet(Entries(s)) \subseteq Shown(s).names /\ ToSet(Entries(s)) \subseteq Names
  BY <1>1, <1>2, <1>7
<1>9. /\ \A n \in ToSet(Entries(s)) : Shown(s) # Nothing
      /\ \A k \in DOMAIN Entries(s) : Shown(s) # Nothing
  BY <1>2, <1>7, <1>8
<1> QED BY <1>1, <1>5, <1>6, <1>7, <1>8, <1>9
-----------------------------------------------------------------------------
(* What a step leaves alone.                                               *)

\* The scene is fixed, and with it the sets the state ranges over.
LEMMA RecordsStay ==
  ASSUME scene' = scene
  PROVE  /\ PaneRec' = PaneRec /\ ListingRec' = ListingRec /\ LoadRec' = LoadRec
         /\ NavRec' = NavRec /\ MenuRec' = MenuRec /\ SelRec' = SelRec
<1>1. ListingRec' = ListingRec /\ MenuRec' = MenuRec /\ PaneRec' = PaneRec /\ LoadRec' = LoadRec
  BY DEF ListingRec, MenuRec, PaneRec, LoadRec
<1> QED BY <1>1 DEF NavRec, SelRec

\* A pane that keeps its folder and its listing shows what it showed.
LEMMA ShownStays ==
  ASSUME NEW s, panes'[s] = panes[s], nav'[s].loaded = nav[s].loaded,
         nav'[s].failure = nav[s].failure
  PROVE  Shown(s)' = Shown(s) /\ (Failed(s)' <=> Failed(s)) /\ Here(s)' = Here(s)
BY DEF Shown, Failed, Here

\* Then it goes on following its folder, as long as that does not change.
LEMMA FollowsStays ==
  ASSUME NEW s, Follows(s), panes'[s] = panes[s], nav'[s].loaded = nav[s].loaded,
         nav'[s].failure = nav[s].failure, nav'[s].nonce = nav[s].nonce, loads'[s] = loads[s],
         missed[s] => missed'[s], timer[s] => timer'[s], disk' = disk, wire' = wire
  PROVE  Follows(s)'
BY ShownStays DEF Follows, Touches, IsCurrent, Children

-----------------------------------------------------------------------------
(* The backend: a change is announced in a folder that is above, at or     *)
(* below every folder whose entries it changes.                            *)

\* Entries near an entry of dir are those of a folder above, at or below dir.
Near(dir, x) ==
  \E k \in Names : IsAtOrUnder(x, Append(dir, k)) \/ IsAtOrUnder(Append(dir, k), x)

\* An entry of p near an entry of dir: one of the folders is above the other.
LEMMA NearEntries ==
  ASSUME NEW p \in Seq(Names), NEW dir \in Seq(Names), NEW n \in Names, Near(dir, Append(p, n))
  PROVE  IsAtOrUnder(dir, p) \/ IsAtOrUnder(p, dir)
<1>1. Len(p) \in Nat /\ Len(dir) \in Nat
  BY LenProperties
<1>2. PICK k \in Names : \/ IsAtOrUnder(Append(p, n), Append(dir, k))
                         \/ IsAtOrUnder(Append(dir, k), Append(p, n))
  BY DEF Near
<1> DEFINE x == Append(p, n)
           y == Append(dir, k)
<1>3. /\ x \in Seq(Names) /\ Len(x) = Len(p) + 1 /\ \A i \in 1..Len(p) : x[i] = p[i]
      /\ y \in Seq(Names) /\ Len(y) = Len(dir) + 1 /\ \A i \in 1..Len(dir) : y[i] = dir[i]
  BY AppendProperties
<1> HIDE DEF x, y
<1>4. CASE IsAtOrUnder(x, y)
  <2>1. Len(y) <= Len(x) /\ \A i \in 1..Len(y) : x[i] = y[i]
    BY <1>3, <1>4, AtOrUnder
  <2>2. Len(dir) <= Len(p) /\ \A i \in 1..Len(dir) : p[i] = dir[i]
    BY <1>1, <1>3, <2>1
  <2> QED BY <2>2, AtOrUnder
<1>5. CASE IsAtOrUnder(y, x)
  <2>1. Len(x) <= Len(y) /\ \A i \in 1..Len(x) : y[i] = x[i]
    BY <1>3, <1>5, AtOrUnder
  <2>2. Len(p) <= Len(dir) /\ \A i \in 1..Len(p) : dir[i] = p[i]
    BY <1>1, <1>3, <2>1
  <2> QED BY <2>2, AtOrUnder
<1> QED BY <1>2, <1>4, <1>5 DEF x, y

\* What the backend may do: it announces a change among the entries of dir,
\* or near them; roots stay.
Changes(src, dir) ==
  /\ wire' = Append(wire, [source |-> src, dir |-> dir])
  /\ DOMAIN disk' = Sources
  /\ \A o \in Sources : o # src => disk'[o] = disk[o]
  /\ disk'[src] \subseteq Seq(Names) /\ Root \in disk'[src]
  /\ \A x \in Seq(Names) : ~Near(dir, x) => (x \in disk'[src] <=> x \in disk[src])

\* The part of the state the backend does not write.
FrontendStays ==
  UNCHANGED <<scene, panes, active, askVars, navVars, sortVars, sel, timer, dials>>

\* A path is at or under itself, and at or above what begins with it; the
\* root is under no entry.
LEMMA PathsUnder ==
  ASSUME NEW dir \in Seq(Names), NEW k \in Names
  PROVE  /\ Append(dir, k) \in Seq(Names) /\ Near(dir, Append(dir, k))
         /\ \A rest \in Seq(Names) : /\ Append(dir, k) \o rest \in Seq(Names)
                                     /\ Near(dir, Append(dir, k) \o rest)
                                     /\ Append(dir, k) \o rest # Root
         /\ \A x : IsAtOrUnder(x, Append(dir, k)) => Near(dir, x)
         /\ ~IsAtOrUnder(Root, Append(dir, k))
<1> DEFINE y == Append(dir, k)
<1>1. y \in Seq(Names) /\ Len(y) = Len(dir) + 1 /\ Len(dir) \in Nat
  BY AppendProperties, LenProperties
<1> HIDE DEF y
<1>2. ASSUME NEW rest \in Seq(Names)
      PROVE  y \o rest \in Seq(Names) /\ IsAtOrUnder(y \o rest, y) /\ y \o rest # Root
  <2>1. y \o rest \in Seq(Names) /\ Len(y \o rest) = Len(y) + Len(rest) /\ Len(rest) \in Nat
    BY <1>1, ConcatProperties, LenProperties
  <2>2. \A i \in 1..Len(y) : (y \o rest)[i] = y[i]
    BY <1>1, <2>1, ConcatProperties
  <2>3. Len(Root) = 0 /\ Len(y) > 0 /\ Len(y) <= Len(y \o rest)
    BY <1>1, <2>1 DEF Root
  <2>4. y \o rest # Root
    BY <1>1, <2>1, <2>3
  <2> QED BY <1>1, <2>1, <2>2, <2>3, <2>4, AtOrUnder
<1>3. IsAtOrUnder(y, y)
  BY <1>1, AtOrUnder
<1>4. ~IsAtOrUnder(Root, y)
  <2>1. Root \in Seq(Names) /\ Len(Root) = 0
    BY DEF Root
  <2>2. ~(Len(y) <= Len(Root))
    BY <1>1, <2>1
  <2> QED BY <1>1, <2>1, <2>2, AtOrUnder
<1> QED BY <1>1, <1>2, <1>3, <1>4 DEF y, Near

\* The folders of a file that lands are announced by the folder it is in.
LEMMA TransferLandsChanges ==
  ASSUME BackTypes, NEW src \in Sources, NEW p \in scene.lands, TransferLands(src, p)
  PROVE  Changes(src, Parent(p)) /\ Parent(p) \in Seq(Names)
<1>1. p \in Seq(Names) /\ p # <<>>
  BY FoldersOfScene DEF BackTypes, TransferLands, Root
<1>2. Len(p) \in Nat \ {0} /\ \A i \in 1..Len(p) : p[i] \in Names
  BY <1>1, EmptySeq, ElementOfSeq
<1>3. Front(p) \in Seq(Names) /\ Last(p) \in Names /\ p = Append(Front(p), Last(p))
  BY <1>1, <1>2 DEF Front, Last
<1>4. ASSUME NEW k \in 0..Len(p)
      PROVE  SubSeq(p, 1, k) \in Seq(Names) /\ IsAtOrUnder(p, SubSeq(p, 1, k))
  <2>1. /\ SubSeq(p, 1, k) \in Seq(Names) /\ Len(SubSeq(p, 1, k)) = k
        /\ \A i \in 1..k : SubSeq(p, 1, k)[i] = p[i]
    BY <1>1, <1>2, <1>4
  <2> DEFINE up == SubSeq(p, 1, k)
  <2>2. up \in Seq(Names) /\ Len(up) <= Len(p) /\ \A i \in 1..Len(up) : p[i] = up[i]
    BY <1>2, <1>4, <2>1
  <2> HIDE DEF up
  <2>3. IsAtOrUnder(p, up)
    BY <1>1, <2>2, AtOrUnder
  <2> QED BY <2>1, <2>3 DEF up
<1>5. disk'[src] = disk[src] \cup {SubSeq(p, 1, k) : k \in 0..Len(p)}
      /\ DOMAIN disk' = Sources /\ \A o \in Sources : o # src => disk'[o] = disk[o]
  BY DEF TransferLands, BackTypes
<1>6. \A x \in Seq(Names) : ~Near(Parent(p), x) => (x \in disk'[src] <=> x \in disk[src])
  <2>1. \A k \in 0..Len(p) : Near(Parent(p), SubSeq(p, 1, k))
    BY <1>3, <1>4 DEF Near, Parent
  <2> QED BY <1>5, <2>1
<1> QED BY <1>3, <1>4, <1>5, <1>6 DEF Changes, TransferLands, Announces, BackTypes, Parent

\* A call is of a folder and of names.
LEMMA CallsAreTyped ==
  ASSUME BackTypes, AskTypes, NEW c \in calls
  PROVE  /\ c \in CallRec /\ c.source \in Sources /\ c.dir \in Seq(Names) /\ c.names \subseteq Names
         /\ disk[c.source] \subseteq Seq(Names) /\ Root \in disk[c.source]
         /\ c.op \in {"rename", "mkdir"} => c.new \in Names
<1>1. c \in CallRec
  BY DEF AskTypes
<1>2. c.source \in Sources /\ c.dir \in Seq(Names) /\ c.names \subseteq Names
  BY <1>1 DEF CallRec
<1> QED BY <1>1, <1>2 DEF AskTypes, BackTypes

\* An operation announces the folder its entries are in.
LEMMA DoneChanges ==
  ASSUME BackTypes, AskTypes, NEW c \in calls, NEW next \in SUBSET Seq(Names), Root \in next,
         NEW ok, Done(c, next, ok),
         \A x \in Seq(Names) : ~Near(c.dir, x) => (x \in next <=> x \in disk[c.source])
  PROVE  Changes(c.source, c.dir)
<1>1. c.source \in Sources
  BY CallsAreTyped
<1>2. disk' = [disk EXCEPT ![c.source] = next] /\ DOMAIN disk = Sources
  BY DEF Done, BackTypes
<1>3. /\ disk'[c.source] = next /\ DOMAIN disk' = Sources
      /\ \A o \in Sources : o # c.source => disk'[o] = disk[o]
  BY <1>1, <1>2
<1> QED BY <1>3 DEF Done, Announces, Changes

\* What a delete removes lies below entries of the folder it announces.
LEMMA DeleteChanges ==
  ASSUME BackTypes, AskTypes, NEW c \in calls, DeleteEntries(c)
  PROVE  Changes(c.source, c.dir)
<1> DEFINE Left(gone) == disk[c.source] \ UNION {Below(c.source, Path(c, n)) : n \in gone}
<1>1. PICK gone \in SUBSET c.names : Done(c, Left(gone), gone = c.names)
  BY DEF DeleteEntries, Targets
<1>2. \A n \in gone : n \in Names /\ Path(c, n) = Append(c.dir, n)
  BY CallsAreTyped DEF Path
<1>3. /\ c.source \in Sources /\ c.dir \in Seq(Names)
      /\ disk[c.source] \subseteq Seq(Names) /\ Root \in disk[c.source]
  BY CallsAreTyped
<1>4. Root \in Left(gone)
  <2>1. \A n \in gone : Root \notin Below(c.source, Path(c, n))
    BY <1>2, <1>3, PathsUnder DEF Below
  <2> QED BY <1>3, <2>1
<1>5. ASSUME NEW x \in Seq(Names), ~Near(c.dir, x) PROVE x \in Left(gone) <=> x \in disk[c.source]
  <2>1. \A n \in gone : x \notin Below(c.source, Path(c, n))
    BY <1>2, <1>3, <1>5, PathsUnder DEF Below
  <2> QED BY <2>1
<1>6. Left(gone) \in SUBSET Seq(Names)
  BY <1>3
<1> HIDE DEF Left
<1> QED BY <1>1, <1>4, <1>5, <1>6, DoneChanges

\* What a rename moves lies below two entries of the folder it announces.
LEMMA RenameChanges ==
  ASSUME BackTypes, AskTypes, NEW c \in calls, RenameEntry(c)
  PROVE  Changes(c.source, c.dir)
<1>1. /\ c.source \in Sources /\ c.dir \in Seq(Names) /\ c.names \subseteq Names
      /\ c.new \in Names /\ disk[c.source] \subseteq Seq(Names) /\ Root \in disk[c.source]
  BY CallsAreTyped DEF RenameEntry
<1>2. CASE Done(c, disk[c.source], FALSE)
  BY <1>1, <1>2, DoneChanges
<1>3. CASE \E n \in Targets(c) : Done(c, Moved(c.source, Path(c, n), Path(c, c.new)), TRUE)
  <2>1. PICK n \in Targets(c) : Done(c, Moved(c.source, Path(c, n), Path(c, c.new)), TRUE)
    BY <1>3
  <2>2. n \in Names /\ Path(c, n) = Append(c.dir, n) /\ Path(c, c.new) = Append(c.dir, c.new)
    BY <1>1 DEF Targets, Path
  <2> DEFINE from == Append(c.dir, n)
             to == Append(c.dir, c.new)
             gone == Below(c.source, from)
             made == {to \o SubSeq(q, Len(from) + 1, Len(q)) : q \in gone}
  <2>3. from \in Seq(Names) /\ Len(from) \in Nat
    BY <1>1, <2>2, AppendProperties, LenProperties
  <2>4. \A q \in gone : q \in Seq(Names) /\ IsAtOrUnder(q, from)
    BY <1>1 DEF Below
  <2>5. ASSUME NEW q \in gone PROVE SubSeq(q, Len(from) + 1, Len(q)) \in Seq(Names)
    <3>1. q \in Seq(Names) /\ Len(q) \in Nat /\ \A i \in 1..Len(q) : q[i] \in Names
      BY <2>4, LenProperties, ElementOfSeq
    <3> QED BY <2>3, <3>1
  <2>6. \A x \in made : x \in Seq(Names) /\ Near(c.dir, x) /\ x # Root
    <3> HIDE DEF from, gone
    <3> QED BY <1>1, <2>5, PathsUnder
  <2>7. \A x \in gone : Near(c.dir, x) /\ x # Root
    BY <1>1, <2>2, <2>4, PathsUnder
  <2>8. Moved(c.source, from, to) = (disk[c.source] \ gone) \cup made
    BY DEF Moved
  <2> DEFINE next == Moved(c.source, from, to)
  <2>9. Done(c, next, TRUE)
    BY <2>1, <2>2
  <2> HIDE DEF from, to, gone, made, next
  <2>10. next = (disk[c.source] \ gone) \cup made
    BY <2>8 DEF next
  <2>11. /\ next \in SUBSET Seq(Names) /\ Root \in next
         /\ \A x \in Seq(Names) : ~Near(c.dir, x) => (x \in next <=> x \in disk[c.source])
    BY <1>1, <2>6, <2>7, <2>10
  <2> QED BY <2>9, <2>11, DoneChanges
<1> QED BY <1>2, <1>3 DEF RenameEntry

\* A folder made is an entry of the folder it announces.
LEMMA MakeDirChanges ==
  ASSUME BackTypes, AskTypes, NEW c \in calls, MakeDir(c)
  PROVE  Changes(c.source, c.dir)
<1>1. /\ c.source \in Sources /\ c.dir \in Seq(Names) /\ c.new \in Names
      /\ disk[c.source] \subseteq Seq(Names) /\ Root \in disk[c.source]
  BY CallsAreTyped DEF MakeDir
<1> DEFINE new == Append(c.dir, c.new)
           made == IF c.dir \in disk[c.source] /\ new \notin disk[c.source] THEN {new} ELSE {}
           next == disk[c.source] \cup made
<1>2. \E ok : Done(c, next, ok)
  BY DEF MakeDir, Path
<1>3. \A x \in made : x \in Seq(Names) /\ Near(c.dir, x)
  BY <1>1, PathsUnder
<1>4. /\ next \in SUBSET Seq(Names) /\ Root \in next
      /\ \A x \in Seq(Names) : ~Near(c.dir, x) => (x \in next <=> x \in disk[c.source])
  BY <1>1, <1>3
<1> HIDE DEF next
<1> QED BY <1>2, <1>4, DoneChanges

\* What a pane shows stays true, or an announcement that reaches it is on the
\* way.
LEMMA AnnouncementsReach ==
  ASSUME BackTypes, NavTypes, Unplaced, Followed, FrontendStays,
         NEW src \in Sources, NEW dir \in Seq(Names), Changes(src, dir)
  PROVE  BackTypes' /\ Followed'
<1>1. BackTypes'
  <2>1. wire' \in Seq(EventRec)
    <3>1. [source |-> src, dir |-> dir] \in EventRec
      BY DEF EventRec
    <3> QED BY <3>1, AppendProperties DEF BackTypes, Changes
  <2> QED BY <2>1 DEF BackTypes, Changes, FrontendStays
<1>2. ASSUME NEW s \in Sides, panes[s].path # NoPath PROVE Follows(s)'
  <2> DEFINE e == [source |-> src, dir |-> dir]
             here == panes[s].path
             own == panes[s].source
  <2>1. Follows(s) /\ here \in Seq(Names) /\ own \in Sources
    BY <1>2, FoldersOfScene, WhatIsShown DEF Followed, BackTypes, PaneRec
  <2>2. /\ DOMAIN wire' = 1..(Len(wire) + 1) /\ Len(wire) \in Nat /\ DOMAIN wire = 1..Len(wire)
        /\ wire'[Len(wire) + 1] = e /\ \A i \in DOMAIN wire : wire'[i] = wire[i]
    BY AppendProperties, LenProperties DEF BackTypes, Changes
  <2>3. CASE Touches(s, e)
    <3>1. Touches(s, e)'
      BY <2>3 DEF Touches, FrontendStays
    <3>2. \E i \in DOMAIN wire' : wire'[i] = e
      BY <2>2
    <3> QED BY <3>1, <3>2 DEF Follows
  <2>4. CASE ~Touches(s, e)
    <3>1. Children(own, here)' = Children(own, here)
      <4>1. CASE own # src
        BY <2>1, <4>1 DEF Children, Changes, FrontendStays
      <4>2. CASE own = src
        <5>1. ~IsAtOrUnder(dir, here) /\ ~IsAtOrUnder(here, dir)
          BY <2>4, <4>2 DEF Touches
        <5>2. ASSUME NEW n \in Names
              PROVE  Append(here, n) \in disk'[src] <=> Append(here, n) \in disk[src]
          <6>1. Append(here, n) \in Seq(Names) /\ ~Near(dir, Append(here, n))
            BY <2>1, <5>1, NearEntries, AppendProperties
          <6> QED BY <6>1 DEF Changes
        <5> QED BY <4>2, <5>2 DEF Children, FrontendStays
      <4> QED BY <4>1, <4>2
    <3>2. /\ panes' = panes /\ nav' = nav /\ loads' = loads /\ missed' = missed /\ timer' = timer
          /\ Shown(s)' = Shown(s) /\ (Failed(s)' <=> Failed(s))
      BY ShownStays DEF FrontendStays, navVars
    <3>3. /\ \A l \in loads[s] : IsCurrent(s, l)' <=> IsCurrent(s, l)
          /\ IsCurrent(s, Shown(s))' <=> IsCurrent(s, Shown(s))
      BY <3>1, <3>2 DEF IsCurrent
    <3>4. (\E i \in DOMAIN wire : Touches(s, wire[i]))
            => \E i \in DOMAIN wire' : Touches(s, wire[i])'
      BY <2>2, <3>2 DEF Touches
    <3> QED BY <2>1, <3>2, <3>3, <3>4 DEF Follows
  <2> QED BY <2>3, <2>4
<1> QED BY <1>1, <1>2 DEF Followed, FrontendStays

-----------------------------------------------------------------------------
(* The selection settles on what a pane shows after the step.              *)

\* A selection that starts over is on a row, on the folder to land on if the
\* open filter shows it.
LEMMA ResetLands ==
  ASSUME scene \in Scenes, SortTypes, NEW names \in SUBSET Names, NEW chosen,
         chosen.filter \in SUBSET Names
  PROVE  LET reset == ResetSelection(names, chosen)
             rows == Rows(names, chosen.filter, sort)
         IN /\ reset \in SelRec /\ reset.menu = NoMenu /\ reset.filter = NoFilter
            /\ chosen.landOn \in names \cap chosen.filter =>
                 reset.cursor \in DOMAIN rows /\ rows[reset.cursor] = chosen.landOn
<1> DEFINE rows == Rows(names, chosen.filter, sort)
           k == IndexOf(rows, chosen.landOn)
           at == IF k = 0 THEN 1 ELSE k
           reset == ResetSelection(names, chosen)
<1>1. /\ k \in Nat /\ DOMAIN rows = 1..Len(rows) /\ Len(rows) \in Nat
      /\ chosen.landOn \in names \cap chosen.filter =>
           k \in DOMAIN rows /\ rows[k] = chosen.landOn
  <2>1. sort \in SortState
    BY DEF SortTypes
  <2>2. /\ ToSet(rows) = names \cap chosen.filter /\ DOMAIN rows = 1..Len(rows)
        /\ Len(rows) \in Nat /\ \A m : IndexOf(rows, m) \in Nat
        /\ \A m \in ToSet(rows) : IndexOf(rows, m) \in DOMAIN rows /\ rows[IndexOf(rows, m)] = m
    BY <2>1, RowsOf
  <2> HIDE DEF rows
  <2> QED BY <2>2
<1>2. reset = [Fresh EXCEPT !.cursor = at, !.anchor = at]
  BY DEF ResetSelection
<1> HIDE DEF rows, k, reset
<1>3. at \in Nat \ {0}
  BY <1>1
<1> HIDE DEF at
<1>4. reset = [cursor |-> at, anchor |-> at, marks |-> {}, filter |-> Names, landOn |-> 0,
               menu |-> NoMenu, bgMenu |-> FALSE]
  BY <1>2 DEF Fresh, NoFilter
<1>5. reset \in SelRec /\ reset.menu = NoMenu /\ reset.filter = NoFilter /\ reset.cursor = at
  BY <1>3, <1>4 DEF SelRec, MenuRec, NoFilter
<1>6. chosen.landOn \in names \cap chosen.filter =>
        reset.cursor \in DOMAIN rows /\ rows[reset.cursor] = chosen.landOn
  BY <1>1, <1>5 DEF at
<1> QED BY <1>5, <1>6 DEF rows, reset

\* The selection keeps its type, and a menu that stays open is of the folder
\* shown; only another source or folder makes it start over.
LEMMA SettleSelects ==
  ASSUME scene \in Scenes, NavTypes, SelTypes, SortTypes, MenuIsShown, NEW s \in Sides,
         nav'[s].loaded \in ListingRec \cup {Nothing}, NEW chosen \in SelRec,
         chosen.menu = sel[s].menu, Settle(s, chosen)
  PROVE  /\ sel' \in [Sides -> SelRec] /\ \A t \in Sides \ {s} : sel'[t] = sel[t]
         /\ sel'[s].menu # NoMenu => sel'[s].menu.path = Shown(s)'.path
         /\ panes'[s].source = panes[s].source =>
              IF Shown(s)'.path = Shown(s).path THEN sel'[s] = chosen
              ELSE sel'[s] = ResetSelection(Shown(s)'.names, chosen)
<1> DEFINE switched == panes'[s].source # panes[s].source
           names == Shown(s)'.names
           set == IF switched /\ Shown(s) # Nothing THEN ResetSelection(names, [chosen EXCEPT !.landOn = 0])
                  ELSE IF Shown(s)'.path # Shown(s).path THEN ResetSelection(names, chosen)
                  ELSE chosen
<1>1. sel' = [sel EXCEPT ![s] = set]
  BY DEF Settle
<1>2. names \in SUBSET Names
  BY DEF Shown, ListingRec, Nothing
<1>3. /\ chosen.filter \in SUBSET Names /\ [chosen EXCEPT !.landOn = 0].filter \in SUBSET Names
  BY DEF SelRec
<1> HIDE DEF names, switched
<1>4. /\ ResetSelection(names, chosen) \in SelRec /\ ResetSelection(names, chosen).menu = NoMenu
      /\ ResetSelection(names, [chosen EXCEPT !.landOn = 0]) \in SelRec
      /\ ResetSelection(names, [chosen EXCEPT !.landOn = 0]).menu = NoMenu
  BY <1>2, <1>3, ResetLands
<1>5. set \in SelRec
  BY <1>4
<1>6. /\ set.menu # NoMenu => set.menu.path = Shown(s)'.path
      /\ ~switched => IF Shown(s)'.path = Shown(s).path THEN set = chosen
                      ELSE set = ResetSelection(names, chosen)
  <2>1. sel[s].menu # NoMenu => sel[s].menu.path = Shown(s).path
    BY DEF MenuIsShown
  <2> QED BY <1>4, <2>1
<1> HIDE DEF set
<1>7. sel' \in [Sides -> SelRec] /\ sel'[s] = set /\ \A t \in Sides \ {s} : sel'[t] = sel[t]
  BY <1>1, <1>5 DEF SelTypes
<1> QED BY <1>6, <1>7 DEF names, switched

-----------------------------------------------------------------------------
(* A pane is led somewhere: a folder is opened, left or read again.        *)

\* Where it may be led and what goes with it: on, dropping the folder an "up"
\* was leaving; to where it is, again; or up.
Going(s, now, kept, chosen) ==
  LET left == nav[s].loaded.path
      looks == chosen.landOn = sel[s].landOn /\ chosen.filter = sel[s].filter
  IN /\ now \in [source : Sources, path : scene.paths]
     /\ kept \in NavRec /\ kept.idx <= Len(kept.stack)
     /\ kept.loaded = nav[s].loaded /\ kept.failure = nav[s].failure /\ kept.nonce = nav[s].nonce
     /\ chosen \in SelRec /\ chosen.menu = sel[s].menu
     /\ \/ kept.leaving = NoPath /\ looks
        \/ kept = nav[s] /\ now = panes[s] /\ looks
        \/ /\ kept.leaving = left /\ left \notin {Root, NoPath} /\ now.path = Parent(left)
           /\ now.source = panes[s].source /\ nav[s].loaded.source = panes[s].source
           /\ chosen.landOn = BaseName(left) /\ chosen.filter = NoFilter

Leads(s, now, kept, chosen) ==
  /\ Going(s, now, kept, chosen)
  /\ \/ BeginLoad(s, now, kept) /\ timer' \in {timer, [timer EXCEPT ![s] = FALSE]}
     \/ /\ now = panes[s] /\ nav' = [nav EXCEPT ![s] = kept]
        /\ UNCHANGED <<panes, loads, cache, missed, timer>>
  /\ Settle(s, chosen)

LeadStep ==
  /\ \E s \in Sides, now \in PaneRec, kept \in NavRec, chosen \in SelRec :
       Leads(s, now, kept, chosen)
  /\ UNCHANGED <<scene, disk, wire, sortVars, askVars>>
  /\ calls' \subseteq calls /\ dials' \subseteq dials

\* A load begun is the newest and of where the pane goes; what is shown
\* meanwhile is what was shown, or the cached listing of that place.
LEMMA BeginLoadAsks ==
  ASSUME scene \in Scenes, scene' = scene, NavTypes, Newest, NEW s \in Sides, NEW now, NEW kept,
         NEW chosen, Going(s, now, kept, chosen), BeginLoad(s, now, kept)
  PROVE  /\ panes' \in [Sides -> PaneRec] /\ nav' \in [Sides -> NavRec]
         /\ loads' \in [Sides -> SUBSET LoadRec] /\ missed' \in [Sides -> BOOLEAN]
         /\ cache' = cache /\ panes'[s] = now
         /\ nav'[s].idx <= Len(nav'[s].stack) /\ nav'[s].leaving = kept.leaving
         /\ \/ nav'[s].loaded = nav[s].loaded
            \/ nav'[s].loaded \in ListingRec /\ nav'[s].loaded.source = now.source
               /\ nav'[s].loaded.path = now.path
         /\ \E l \in loads'[s] : l.nonce = nav'[s].nonce /\ l.at = "sent"
         /\ Newest'
         /\ \A t \in Sides \ {s} : /\ panes'[t] = panes[t] /\ nav'[t] = nav[t]
                                   /\ loads'[t] = loads[t] /\ missed'[t] = missed[t]
<1> DEFINE n == nav[s].nonce + 1
           load == [nonce |-> n, at |-> "sent", source |-> now.source, path |-> now.path,
                    names |-> {}]
           cached == [src |-> now.source, path |-> now.path]
           history == IF now.source = panes[s].source THEN kept
                      ELSE [kept EXCEPT !.stack = <<>>, !.idx = 0]
           set == IF cache[cached] = Nothing THEN [history EXCEPT !.nonce = @ + 1]
                  ELSE [history EXCEPT !.nonce = @ + 1, !.loaded = cache[cached],
                                       !.failure = "none"]
<1>1. /\ panes' = [panes EXCEPT ![s] = now] /\ missed' = [missed EXCEPT ![s] = FALSE]
      /\ loads' = [loads EXCEPT ![s] = @ \cup {load}] /\ nav' = [nav EXCEPT ![s] = set]
      /\ cache' = cache
  BY DEF BeginLoad
<1>2. /\ now \in [source : Sources, path : scene.paths] /\ now \in PaneRec
      /\ kept \in NavRec /\ kept.idx <= Len(kept.stack) /\ kept.loaded = nav[s].loaded
      /\ kept.failure = nav[s].failure /\ kept.nonce = nav[s].nonce
  BY DEF Going, PaneRec
<1>3. /\ panes \in [Sides -> PaneRec] /\ nav \in [Sides -> NavRec]
      /\ loads \in [Sides -> SUBSET LoadRec] /\ missed \in [Sides -> BOOLEAN]
      /\ nav[s] \in NavRec /\ nav[s].nonce \in Nat
  BY DEF NavTypes, NavRec
<1>4. n \in Nat \ {0} /\ load \in LoadRec
  BY <1>2, <1>3 DEF LoadRec
<1>5. /\ cache[cached] \in ListingRec \cup {Nothing}
      /\ cache[cached] # Nothing => /\ cache[cached] \in ListingRec
                                    /\ cache[cached].source = now.source
                                    /\ cache[cached].path = now.path
  BY <1>2 DEF NavTypes
<1>6. /\ history \in NavRec /\ history.idx <= Len(history.stack) /\ history.nonce = nav[s].nonce
      /\ history.loaded = nav[s].loaded /\ history.leaving = kept.leaving
  <2>1. CASE now.source = panes[s].source
    BY <1>2, <2>1
  <2>2. CASE now.source # panes[s].source
    <3>1. <<>> \in Seq(scene.paths) /\ Len(<<>>) = 0
      OBVIOUS
    <3>2. history = [kept EXCEPT !.stack = <<>>, !.idx = 0]
      BY <2>2
    <3> HIDE DEF history
    <3>3. history \in NavRec /\ history.stack = <<>> /\ history.idx = 0
      BY <1>2, <3>1, <3>2 DEF NavRec
    <3>4. history.nonce = kept.nonce /\ history.loaded = kept.loaded /\ history.leaving = kept.leaving
      BY <1>2, <3>2 DEF NavRec
    <3> QED BY <1>2, <3>1, <3>3, <3>4
  <2> QED BY <2>1, <2>2
<1> HIDE DEF history, cached
<1>7. /\ set \in NavRec /\ set.idx <= Len(set.stack) /\ set.leaving = kept.leaving
      /\ set.nonce = n
      /\ set.loaded = nav[s].loaded \/ (set.loaded = cache[cached] /\ cache[cached] # Nothing)
  <2>1. CASE cache[cached] = Nothing
    <3>1. set = [history EXCEPT !.nonce = @ + 1]
      BY <2>1
    <3> HIDE DEF set
    <3>2. set.nonce = history.nonce + 1 /\ set \in NavRec /\ set.loaded = history.loaded
      BY <1>3, <1>4, <1>6, <3>1 DEF NavRec
    <3>3. set.stack = history.stack /\ set.idx = history.idx /\ set.leaving = history.leaving
      BY <1>6, <3>1 DEF NavRec
    <3>4. set.nonce = n /\ set.loaded = nav[s].loaded
      BY <1>6, <3>2
    <3>5. set.idx <= Len(set.stack) /\ set.leaving = kept.leaving
      BY <1>6, <3>3
    <3> QED BY <3>2, <3>4, <3>5
  <2>2. CASE cache[cached] # Nothing
    BY <1>3, <1>4, <1>5, <1>6, <2>2 DEF NavRec
  <2> QED BY <2>1, <2>2
<1> HIDE DEF set
<1>8. /\ panes'[s] = now /\ nav'[s] = set /\ loads'[s] = loads[s] \cup {load}
      /\ \A t \in Sides \ {s} : /\ panes'[t] = panes[t] /\ nav'[t] = nav[t]
                                /\ loads'[t] = loads[t] /\ missed'[t] = missed[t]
      /\ panes' \in [Sides -> PaneRec] /\ nav' \in [Sides -> NavRec]
      /\ loads' \in [Sides -> SUBSET LoadRec] /\ missed' \in [Sides -> BOOLEAN]
  BY <1>1, <1>2, <1>3, <1>4, <1>7
<1>9. load.nonce = n /\ load.at = "sent" /\ load.source = now.source /\ load.path = now.path
  OBVIOUS
<1> HIDE DEF load, n
<1>10. Newest'
  <2>1. ASSUME NEW l \in loads'[s]
        PROVE  /\ l.nonce <= nav'[s].nonce
               /\ l.nonce = nav'[s].nonce => l = load
    <3>1. CASE l \in loads[s]
      <4>1. l.nonce <= nav[s].nonce /\ l.nonce \in Nat
        BY <1>3, <3>1 DEF Newest, LoadRec
      <4> QED BY <1>3, <1>7, <1>8, <4>1 DEF n
    <3>2. CASE l = load
      BY <1>4, <1>7, <1>8, <1>9, <3>2
    <3> QED BY <1>8, <2>1, <3>1, <3>2
  <2>2. ASSUME NEW l \in loads'[s], NEW m \in loads'[s], l.nonce = m.nonce PROVE l = m
    <3>1. \A k \in loads[s] : k.nonce # n
      BY <1>3, <1>4 DEF Newest, LoadRec, n
    <3>2. CASE l \in loads[s] /\ m \in loads[s]
      BY <2>2, <3>2 DEF Newest
    <3> QED BY <1>8, <1>9, <2>2, <3>1, <3>2
  <2> QED BY <1>8, <1>9, <2>1, <2>2 DEF Newest
<1>11. \E l \in loads'[s] : l.nonce = nav'[s].nonce /\ l.at = "sent"
  BY <1>7, <1>8, <1>9
<1> QED BY <1>1, <1>5, <1>7, <1>8, <1>10, <1>11

\* What the invariant says of panes that a step leaves as they are.
LEMMA OthersFollow ==
  ASSUME NEW t \in Sides, IInv, scene' = scene, panes'[t] = panes[t], nav'[t] = nav[t],
         loads'[t] = loads[t], missed'[t] = missed[t], timer'[t] = timer[t], sel'[t] = sel[t],
         disk' = disk, wire' = wire
  PROVE  /\ panes'[t].path = NoPath =>
              nav'[t].loaded = Nothing /\ loads'[t] = {} /\ ~timer'[t] /\ nav'[t].failure = "none"
         /\ sel'[t].menu # NoMenu => sel'[t].menu.path = Shown(t)'.path
         /\ panes'[t].path # NoPath => Follows(t)'
         /\ LET left == nav'[t].leaving IN left # NoPath =>
              /\ left # Root /\ panes'[t].path = Parent(left)
              /\ nav'[t].loaded.source = panes'[t].source
              /\ \/ nav'[t].loaded.path = Parent(left)
                 \/ nav'[t].loaded.path = left /\ sel'[t].landOn = BaseName(left)
<1>1. Shown(t)' = Shown(t)
  BY ShownStays
<1>2. panes'[t].path # NoPath => Follows(t)'
  <2> SUFFICES ASSUME panes'[t].path # NoPath PROVE Follows(t)'
    OBVIOUS
  <2>1. Follows(t)
    BY DEF IInv, Followed
  <2> QED BY <2>1, FollowsStays
<1>3. sel'[t].menu # NoMenu => sel'[t].menu.path = Shown(t)'.path
  BY <1>1 DEF IInv, MenuIsShown
<1> QED BY <1>2, <1>3 DEF IInv, Unplaced, Leaving

\* Being led somewhere disturbs nothing: the newest load is of where the pane
\* goes, and an "up" will land on the folder it leaves.
LEMMA LeadKeeps == IInv /\ LeadStep => IInv'
<1> SUFFICES ASSUME IInv, LeadStep PROVE IInv'
  OBVIOUS
<1> USE DEF IInv
<1>1. PICK s \in Sides, now \in PaneRec, kept \in NavRec, chosen \in SelRec :
        Leads(s, now, kept, chosen)
  BY DEF LeadStep
<1>2. /\ scene \in Scenes /\ scene' = scene /\ disk' = disk /\ wire' = wire /\ sortVars' = sortVars
      /\ askVars' = askVars /\ calls' \subseteq calls /\ dials' \subseteq dials
  BY DEF LeadStep, BackTypes
<1>3. /\ Going(s, now, kept, chosen) /\ Settle(s, chosen)
      /\ now.source \in Sources /\ now.path \in scene.paths /\ now.path # NoPath
      /\ kept \in NavRec /\ kept.idx <= Len(kept.stack) /\ kept.loaded = nav[s].loaded
      /\ kept.failure = nav[s].failure /\ kept.nonce = nav[s].nonce
      /\ chosen.menu = sel[s].menu /\ chosen \in SelRec
  BY <1>1, <1>2, FoldersOfScene DEF Leads, Going
<1>4. /\ panes' \in [Sides -> PaneRec] /\ nav' \in [Sides -> NavRec]
      /\ loads' \in [Sides -> SUBSET LoadRec] /\ missed' \in [Sides -> BOOLEAN]
      /\ timer' \in [Sides -> BOOLEAN]
      /\ cache' = cache /\ panes'[s] = now
      /\ nav'[s].idx <= Len(nav'[s].stack) /\ nav'[s].leaving = kept.leaving
      /\ \/ nav'[s].loaded = nav[s].loaded
         \/ /\ nav'[s].loaded.source = now.source /\ nav'[s].loaded.path = now.path
            /\ nav'[s].loaded \in ListingRec
      /\ Newest'
      /\ Follows(s)'
      /\ \A t \in Sides \ {s} : /\ panes'[t] = panes[t] /\ nav'[t] = nav[t] /\ timer'[t] = timer[t]
                                /\ loads'[t] = loads[t] /\ missed'[t] = missed[t]
  <2>1. CASE BeginLoad(s, now, kept) /\ timer' \in {timer, [timer EXCEPT ![s] = FALSE]}
    <3>1. \E l \in loads'[s] : l.nonce = nav'[s].nonce /\ l.at = "sent"
      BY <1>2, <1>3, <2>1, BeginLoadAsks
    <3>2. Follows(s)'
      BY <1>2, <1>3, <2>1, <3>1, BeginLoadAsks DEF Follows, Newest
    <3>3. timer' \in [Sides -> BOOLEAN] /\ \A t \in Sides \ {s} : timer'[t] = timer[t]
      BY <2>1 DEF NavTypes
    <3> QED BY <1>2, <1>3, <2>1, <3>2, <3>3, BeginLoadAsks
  <2>2. CASE /\ now = panes[s] /\ nav' = [nav EXCEPT ![s] = kept]
             /\ UNCHANGED <<panes, loads, cache, missed, timer>>
    <3>1. /\ nav'[s] = kept /\ nav' \in [Sides -> NavRec]
          /\ \A t \in Sides \ {s} : nav'[t] = nav[t]
      BY <1>3, <2>2 DEF NavTypes
    <3>2. Newest'
      BY <1>3, <2>2, <3>1 DEF Newest
    <3>3. Follows(s)
      BY <1>3, <2>2 DEF Followed
    <3>4. Follows(s)'
      BY <1>2, <1>3, <2>2, <3>1, <3>3, FollowsStays
    <3> QED BY <1>3, <2>2, <3>1, <3>2, <3>4 DEF NavTypes
  <2> QED BY <1>1, <2>1, <2>2 DEF Leads
<1>5. nav'[s].loaded \in ListingRec \cup {Nothing}
  BY <1>4 DEF NavTypes, NavRec
<1>6. /\ sel' \in [Sides -> SelRec] /\ \A t \in Sides \ {s} : sel'[t] = sel[t]
      /\ sel'[s].menu # NoMenu => sel'[s].menu.path = Shown(s)'.path
      /\ panes'[s].source = panes[s].source =>
              IF Shown(s)'.path = Shown(s).path THEN sel'[s] = chosen
              ELSE sel'[s] = ResetSelection(Shown(s)'.names, chosen)
  BY <1>2, <1>3, <1>5, SettleSelects
<1>7. ASSUME kept.leaving # NoPath
      PROVE  /\ kept.leaving # Root /\ panes'[s].path = Parent(kept.leaving)
             /\ nav'[s].loaded.source = panes'[s].source
             /\ \/ nav'[s].loaded.path = Parent(kept.leaving)
                \/ nav'[s].loaded.path = kept.leaving /\ sel'[s].landOn = BaseName(kept.leaving)
  <2>1. /\ kept.leaving # Root /\ now.path = Parent(kept.leaving)
        /\ now.source = panes[s].source /\ nav[s].loaded.source = panes[s].source
        /\ \/ nav[s].loaded.path = Parent(kept.leaving)
           \/ nav[s].loaded.path = kept.leaving /\ chosen.landOn = BaseName(kept.leaving)
    <3>1. CASE kept = nav[s] /\ now = panes[s] /\ chosen.landOn = sel[s].landOn
      BY <1>7, <3>1 DEF Leaving
    <3>2. CASE kept.leaving = nav[s].loaded.path
      BY <1>3, <1>7, <3>2 DEF Going, Leaving
    <3> QED BY <1>3, <1>7, <3>1, <3>2 DEF Going
  <2>2. CASE nav'[s].loaded = nav[s].loaded
    <3>1. Shown(s)' = Shown(s)
      BY <1>4, <2>1, <2>2 DEF Shown
    <3>2. sel'[s] = chosen
      BY <1>4, <1>6, <2>1, <3>1
    <3> QED BY <1>4, <2>1, <2>2, <3>2
  <2>3. CASE nav'[s].loaded.source = now.source /\ nav'[s].loaded.path = now.path
    BY <1>4, <2>1, <2>3
  <2> QED BY <1>4, <2>2, <2>3
<1>8. \A t \in Sides \ {s} :
        /\ panes'[t].path = NoPath =>
              nav'[t].loaded = Nothing /\ loads'[t] = {} /\ ~timer'[t] /\ nav'[t].failure = "none"
        /\ sel'[t].menu # NoMenu => sel'[t].menu.path = Shown(t)'.path
        /\ panes'[t].path # NoPath => Follows(t)'
        /\ LET left == nav'[t].leaving IN left # NoPath =>
             /\ left # Root /\ panes'[t].path = Parent(left)
             /\ nav'[t].loaded.source = panes'[t].source
             /\ \/ nav'[t].loaded.path = Parent(left)
                \/ nav'[t].loaded.path = left /\ sel'[t].landOn = BaseName(left)
  BY <1>2, <1>4, <1>6, OthersFollow
<1>9. /\ PaneRec' = PaneRec /\ ListingRec' = ListingRec /\ LoadRec' = LoadRec
      /\ NavRec' = NavRec /\ SelRec' = SelRec
  BY <1>2, RecordsStay
<1>10. BackTypes'
  BY <1>2 DEF BackTypes
<1>11. NavTypes'
  <2>1. \A t \in Sides : nav'[t].idx <= Len(nav'[t].stack)
    BY <1>4 DEF NavTypes
  <2> QED BY <1>2, <1>4, <1>9, <2>1 DEF NavTypes
<1>12. SelTypes'
  BY <1>6, <1>9 DEF SelTypes
<1>13. SortTypes'
  BY <1>2 DEF SortTypes, sortVars
<1>14. AskTypes'
  <2>1. \A t \in Sides : panes[t].path # NoPath => panes'[t].path # NoPath
    BY <1>3, <1>4
  <2>2. \A c \in calls : c.side \in Sides
    BY DEF AskTypes, CallRec
  <2>3. confirm # NoAsk => confirm.side \in Sides
    BY DEF AskTypes, AskRec
  <2> QED BY <1>2, <2>1, <2>2, <2>3 DEF AskTypes, askVars
<1>15. Unplaced'
  BY <1>3, <1>4, <1>8 DEF Unplaced
<1>16. MenuIsShown'
  BY <1>6, <1>8 DEF MenuIsShown
<1>17. Followed'
  BY <1>4, <1>8 DEF Followed
<1>18. Leaving'
  BY <1>4, <1>7, <1>8 DEF Leaving
<1> QED BY <1>4, <1>10, <1>11, <1>12, <1>13, <1>14, <1>15, <1>16, <1>17, <1>18

-----------------------------------------------------------------------------
(* Nothing is led anywhere: a selection, a heading, a question, an answer. *)

StillStep ==
  /\ UNCHANGED <<scene, disk, wire, panes, navVars, timer>>
  /\ \E s \in Sides, chosen \in SelRec :
       /\ sel' = [sel EXCEPT ![s] = chosen]
       /\ chosen.menu # NoMenu => chosen.menu.path = Shown(s).path
       /\ chosen.landOn = sel[s].landOn \/ Shown(s) = Nothing \/ Here(s) = Root
  /\ SortTypes' /\ AskTypes' /\ dials' \subseteq DialRec

\* A step that leads nowhere keeps the invariant: a folder to land on is only
\* dropped where no "up" is under way.
LEMMA StillKeeps == IInv /\ StillStep => IInv'
<1> SUFFICES ASSUME IInv, StillStep PROVE IInv'
  OBVIOUS
<1> USE DEF IInv
<1>1. PICK s \in Sides, chosen \in SelRec :
        /\ sel' = [sel EXCEPT ![s] = chosen]
        /\ chosen.menu # NoMenu => chosen.menu.path = Shown(s).path
        /\ chosen.landOn = sel[s].landOn \/ Shown(s) = Nothing \/ Here(s) = Root
  BY DEF StillStep
<1>2. /\ scene \in Scenes /\ scene' = scene /\ disk' = disk /\ wire' = wire /\ panes' = panes
      /\ loads' = loads /\ nav' = nav /\ cache' = cache /\ missed' = missed /\ timer' = timer
      /\ SortTypes' /\ AskTypes' /\ dials' \subseteq DialRec
  BY DEF StillStep, BackTypes, navVars
<1>3. /\ sel' \in [Sides -> SelRec] /\ sel'[s] = chosen /\ \A t \in Sides \ {s} : sel'[t] = sel[t]
  BY <1>1 DEF SelTypes
<1>4. /\ PaneRec' = PaneRec /\ ListingRec' = ListingRec /\ LoadRec' = LoadRec
      /\ NavRec' = NavRec /\ SelRec' = SelRec
  BY <1>2, RecordsStay
<1>5. BackTypes' /\ NavTypes' /\ SelTypes'
  BY <1>2, <1>3, <1>4 DEF BackTypes, NavTypes, SelTypes
<1>6. Unplaced' /\ Newest'
  BY <1>2 DEF Unplaced, Newest
<1>7. Followed'
  <2>1. \A t \in Sides : Follows(t) => Follows(t)'
    BY <1>2, FollowsStays
  <2> QED BY <1>2, <2>1 DEF Followed
<1>8. MenuIsShown'
  <2>1. \A t \in Sides : Shown(t)' = Shown(t)
    BY <1>2, ShownStays
  <2> QED BY <1>1, <1>3, <2>1 DEF MenuIsShown
<1>9. Leaving'
  <2>1. ASSUME nav[s].leaving # NoPath, Shown(s) = Nothing \/ Here(s) = Root
        PROVE  nav[s].loaded.path = Parent(nav[s].leaving)
    <3>1. /\ nav[s].leaving # Root /\ nav[s].loaded.source = panes[s].source
          /\ \/ nav[s].loaded.path = Parent(nav[s].leaving)
             \/ nav[s].loaded.path = nav[s].leaving
      BY <2>1 DEF Leaving
    <3>2. Shown(s) # Nothing /\ Shown(s) = nav[s].loaded /\ Here(s) = nav[s].loaded.path
      <4>1. panes[s].source # Nothing.source
        BY PaneConstants DEF NavTypes, PaneRec, Nothing
      <4> QED BY <3>1, <4>1 DEF Shown, Here
    <3> QED BY <2>1, <3>1, <3>2
  <2>2. nav[s].leaving # NoPath =>
          \/ nav[s].loaded.path = Parent(nav[s].leaving)
          \/ nav[s].loaded.path = nav[s].leaving /\ chosen.landOn = BaseName(nav[s].leaving)
    BY <1>1, <2>1 DEF Leaving
  <2> QED BY <1>2, <1>3, <2>2 DEF Leaving
<1> QED BY <1>2, <1>5, <1>6, <1>7, <1>8, <1>9

-----------------------------------------------------------------------------
(* The backend.                                                            *)

\* An answered call is of the same folder and names.
LEMMA AnsweredCalls ==
  ASSUME AskTypes, NEW c \in calls, NEW at \in {"ok", "failed"},
         calls' = (calls \ {c}) \cup {[c EXCEPT !.at = at]}, UNCHANGED <<panes, confirm, prompt>>
  PROVE  AskTypes'
<1> DEFINE answered == [c EXCEPT !.at = at]
<1>1. /\ c \in CallRec
      /\ answered \in CallRec /\ answered.op = c.op /\ answered.new = c.new /\ answered.side = c.side
  BY DEF AskTypes, CallRec
<1> HIDE DEF answered
<1>2. calls' \subseteq CallRec
  BY <1>1 DEF AskTypes, answered
<1>3. \A d \in calls' : \E b \in calls : d.op = b.op /\ d.new = b.new /\ d.side = b.side
  BY <1>1 DEF answered
<1> QED BY <1>2, <1>3 DEF AskTypes

\* A change on disk reaches every pane it concerns: its announcement is on the wire.
LEMMA BackendKeeps == IInv /\ Backend => IInv'
<1> SUFFICES ASSUME IInv, Backend PROVE IInv'
  OBVIOUS
<1> USE DEF IInv
<1>1. ASSUME FrontendStays, AskTypes', NEW src \in Sources, NEW dir \in Seq(Names), Changes(src, dir)
      PROVE  IInv'
  <2>1. /\ scene' = scene /\ panes' = panes /\ sel' = sel /\ timer' = timer /\ dials' = dials
        /\ loads' = loads /\ nav' = nav /\ cache' = cache /\ missed' = missed
        /\ sort' = sort /\ mirror' = mirror /\ hydration' = hydration
    BY <1>1 DEF FrontendStays, navVars, sortVars
  <2>2. /\ PaneRec' = PaneRec /\ ListingRec' = ListingRec /\ LoadRec' = LoadRec
        /\ NavRec' = NavRec /\ SelRec' = SelRec
    BY <2>1, RecordsStay
  <2>3. NavTypes' /\ SelTypes' /\ SortTypes'
    BY <2>1, <2>2 DEF NavTypes, SelTypes, SortTypes
  <2>4. Unplaced' /\ Newest' /\ Leaving'
    BY <2>1 DEF Unplaced, Newest, Leaving
  <2>5. MenuIsShown'
    BY <2>1, ShownStays DEF MenuIsShown
  <2>6. BackTypes' /\ Followed'
    BY <1>1, AnnouncementsReach
  <2> QED BY <1>1, <2>3, <2>4, <2>5, <2>6
<1>2. ASSUME NEW src \in Sources, NEW p \in scene.lands, TransferLands(src, p) PROVE IInv'
  <2>1. Changes(src, Parent(p)) /\ Parent(p) \in Seq(Names)
    BY <1>2, TransferLandsChanges
  <2>2. FrontendStays /\ AskTypes'
    BY <1>2 DEF TransferLands, FrontendStays, AskTypes, askVars
  <2> QED BY <1>1, <2>1, <2>2
<1>3. CASE ExecCall
  <2>1. PICK c \in calls :
          /\ DeleteEntries(c) \/ RenameEntry(c) \/ MakeDir(c) \/ EnqueueFiles(c) \/ NoSession(c)
          /\ FrontendStays
    BY <1>3 DEF ExecCall, FrontendStays
  <2>2. c.source \in Sources /\ c.dir \in Seq(Names)
    BY CallsAreTyped
  <2>3. \E at \in {"ok", "failed"} : calls' = (calls \ {c}) \cup {[c EXCEPT !.at = at]}
    BY <2>1 DEF DeleteEntries, RenameEntry, MakeDir, EnqueueFiles, NoSession, Done
  <2>4. AskTypes'
    BY <2>1, <2>3, AnsweredCalls DEF FrontendStays, askVars
  <2>5. CASE DeleteEntries(c) \/ RenameEntry(c) \/ MakeDir(c)
    <3>1. Changes(c.source, c.dir)
      BY <2>5, DeleteChanges, RenameChanges, MakeDirChanges
    <3> QED BY <1>1, <2>1, <2>2, <2>4, <3>1
  <2>6. CASE EnqueueFiles(c) \/ NoSession(c)
    <3>1. UNCHANGED <<scene, disk, wire, panes, navVars, timer, sel, sortVars, dials>>
      BY <2>1, <2>6 DEF EnqueueFiles, NoSession, FrontendStays
    <3>2. sel' = [sel EXCEPT ![0] = sel[0]] /\ sel[0] \in SelRec /\ 0 \in Sides
      BY <3>1 DEF SelTypes, Sides
    <3>3. sel[0].menu # NoMenu => sel[0].menu.path = Shown(0).path
      BY <3>2 DEF MenuIsShown
    <3>4. SortTypes' /\ dials' \subseteq DialRec
      BY <3>1 DEF SortTypes, sortVars, NavTypes
    <3> QED BY <2>4, <3>1, <3>2, <3>3, <3>4, StillKeeps DEF StillStep
  <2> QED BY <2>1, <2>5, <2>6
<1> QED BY <1>2, <1>3 DEF Backend

-----------------------------------------------------------------------------
(* Listings arrive, and announcements.                                     *)

\* A reading that reaches the source sees the folder as it is, and later
\* changes are announced.
LEMMA ReadDirKeeps == ASSUME IInv, NEW s \in Sides, ReadDir(s) PROVE IInv'
<1> USE DEF IInv
<1>1. /\ scene \in Scenes /\ scene' = scene /\ disk' = disk /\ wire' = wire /\ panes' = panes
      /\ nav' = nav /\ cache' = cache /\ missed' = missed /\ timer' = timer /\ sel' = sel
      /\ dials' = dials /\ calls' = calls /\ sortVars' = sortVars /\ askVars' = askVars
  BY DEF ReadDir, BackTypes, backVars
<1>2. PICK l \in loads[s], at \in {"listed", "failed"} :
        LET names == IF at = "listed" THEN Children(l.source, l.path) ELSE {} IN
        loads' = [loads EXCEPT ![s] = (@ \ {l}) \cup {[l EXCEPT !.at = at, !.names = names]}]
  BY DEF ReadDir
<1> DEFINE names == IF at = "listed" THEN Children(l.source, l.path) ELSE {}
           read == [l EXCEPT !.at = at, !.names = names]
<1>3. /\ loads \in [Sides -> SUBSET LoadRec] /\ l \in LoadRec /\ l.nonce \in Nat
      /\ nav[s].nonce \in Nat
  BY DEF NavTypes, LoadRec, NavRec
<1>4. /\ read \in LoadRec /\ read.nonce = l.nonce /\ read.source = l.source /\ read.path = l.path
      /\ read.at = at /\ read.names = names
  <2>1. names \in SUBSET Names
    BY DEF Children
  <2> HIDE DEF names
  <2> QED BY <1>3, <2>1 DEF LoadRec
<1>5. loads' = [loads EXCEPT ![s] = (@ \ {l}) \cup {read}]
  BY <1>2
<1> HIDE DEF read
<1>6. /\ loads'[s] = (loads[s] \ {l}) \cup {read} /\ loads' \in [Sides -> SUBSET LoadRec]
      /\ \A t \in Sides \ {s} : loads'[t] = loads[t]
  BY <1>3, <1>4, <1>5
<1>7. NavTypes'
  BY <1>1, <1>6, RecordsStay DEF NavTypes
<1>8. BackTypes' /\ SelTypes' /\ SortTypes' /\ AskTypes' /\ Leaving'
  BY <1>1, RecordsStay DEF BackTypes, SelTypes, SortTypes, AskTypes, Leaving, sortVars, askVars
<1>9. MenuIsShown'
  BY <1>1, ShownStays DEF MenuIsShown
<1>10. Unplaced'
  BY <1>1, <1>6 DEF Unplaced
<1>11. Newest'
  <2>1. ASSUME NEW m \in loads'[s]
        PROVE  \E k \in loads[s] : /\ m.nonce = k.nonce /\ m.source = k.source /\ m.path = k.path
                                   /\ (m = k /\ k # l) \/ (m = read /\ k = l)
    BY <1>4, <1>6, <2>1
  <2>2. ASSUME NEW m \in loads'[s]
        PROVE  /\ m.nonce <= nav[s].nonce
               /\ m.nonce = nav[s].nonce => m.source = panes[s].source /\ m.path = panes[s].path
    BY <2>1 DEF Newest
  <2>3. ASSUME NEW m \in loads'[s], NEW k \in loads'[s], m.nonce = k.nonce PROVE m = k
    BY <2>1, <2>3 DEF Newest
  <2> QED BY <1>1, <1>6, <2>2, <2>3 DEF Newest
<1>12. Followed'
  <2>1. ASSUME NEW t \in Sides \ {s}, Follows(t) PROVE Follows(t)'
    BY <1>1, <1>6, <2>1, FollowsStays
  <2>2. ASSUME Follows(s) PROVE Follows(s)'
    <3>1. /\ Shown(s)' = Shown(s) /\ (Failed(s)' <=> Failed(s))
          /\ \A e : Touches(s, e)' <=> Touches(s, e)
          /\ IsCurrent(s, Shown(s))' <=> IsCurrent(s, Shown(s))
      BY <1>1, ShownStays DEF Touches, IsCurrent, Children
    <3>2. CASE missed[s] \/ timer[s] \/ \E i \in DOMAIN wire : Touches(s, wire[i])
      BY <1>1, <3>1, <3>2 DEF Follows, Touches
    <3>3. CASE /\ \A m \in loads[s] : m.nonce = nav[s].nonce /\ m.at = "listed" => IsCurrent(s, m)
               /\ \/ Failed(s)
                  \/ \E m \in loads[s] : m.nonce = nav[s].nonce
                  \/ Shown(s).path = panes[s].path /\ IsCurrent(s, Shown(s))
      <4>1. ASSUME NEW m \in loads'[s], m.nonce = nav[s].nonce, m.at = "listed"
            PROVE  IsCurrent(s, m)'
        <5>1. CASE m \in loads[s]
          BY <1>1, <3>3, <4>1, <5>1 DEF IsCurrent, Children
        <5>2. CASE m = read
          <6>1. l.source = panes[s].source /\ l.path = panes[s].path
            BY <1>4, <4>1, <5>2 DEF Newest
          <6>2. m.names = Children(panes[s].source, panes[s].path)
            BY <1>4, <4>1, <5>2, <6>1
          <6> QED BY <1>1, <6>2 DEF IsCurrent, Children
        <5> QED BY <1>6, <4>1, <5>1, <5>2
      <4>2. (\E m \in loads[s] : m.nonce = nav[s].nonce)
              => \E m \in loads'[s] : m.nonce = nav[s].nonce
        BY <1>4, <1>6
      <4> QED BY <1>1, <3>1, <3>3, <4>1, <4>2 DEF Follows
    <3> QED BY <2>2, <3>2, <3>3 DEF Follows
  <2> QED BY <1>1, <2>1, <2>2 DEF Followed
<1> QED BY <1>7, <1>8, <1>9, <1>10, <1>11, <1>12

\* An event taken from the wire becomes a reload, or the pane has missed it.
LEMMA OnFsChangedKeeps == IInv /\ OnFsChanged => IInv'
<1> SUFFICES ASSUME IInv, OnFsChanged PROVE IInv'
  OBVIOUS
<1> USE DEF IInv
<1> DEFINE e == Head(wire)
<1>1. /\ scene \in Scenes /\ scene' = scene /\ disk' = disk /\ panes' = panes
      /\ nav' = nav /\ cache' = cache /\ loads' = loads /\ sel' = sel
      /\ dials' = dials /\ calls' = calls /\ sortVars' = sortVars /\ askVars' = askVars
      /\ wire # <<>> /\ wire' = Tail(wire)
      /\ timer' = [s \in Sides |-> timer[s] \/ Concerns(s, e)]
      /\ missed' = [s \in Sides |-> missed[s] \/ (e.source = panes[s].source /\ Misses(s, e))]
  BY DEF OnFsChanged, BackTypes
<1>2. timer' \in [Sides -> BOOLEAN] /\ missed' \in [Sides -> BOOLEAN]
  <2>1. \A s \in Sides : /\ (timer[s] \/ Concerns(s, e)) \in BOOLEAN
                         /\ (missed[s] \/ (e.source = panes[s].source /\ Misses(s, e))) \in BOOLEAN
    OBVIOUS
  <2> QED BY <1>1, <2>1
<1>3. /\ wire \in Seq(EventRec) /\ wire' \in Seq(EventRec) /\ Len(wire) \in Nat \ {0}
      /\ wire[1] = e /\ DOMAIN wire = 1..Len(wire) /\ DOMAIN wire' = 1..(Len(wire) - 1)
      /\ \A i \in 1..(Len(wire) - 1) : wire'[i] = wire[i + 1]
  <2>1. wire \in Seq(EventRec) /\ wire # <<>>
    BY <1>1 DEF BackTypes
  <2>2. Len(wire) \in Nat \ {0} /\ DOMAIN wire = 1..Len(wire)
    BY <2>1, EmptySeq, LenProperties
  <2> QED BY <1>1, <2>1, <2>2, HeadTailProperties
<1>4. BackTypes'
  BY <1>1, <1>3 DEF BackTypes
<1>5. NavTypes'
  BY <1>1, <1>2, RecordsStay DEF NavTypes
<1>6. SelTypes' /\ SortTypes' /\ AskTypes' /\ Leaving' /\ Newest'
  BY <1>1, RecordsStay DEF SelTypes, SortTypes, AskTypes, Leaving, Newest, sortVars, askVars
<1>7. MenuIsShown'
  BY <1>1, ShownStays DEF MenuIsShown
<1>8. Unplaced'
  <2>1. ASSUME NEW s \in Sides, panes[s].path = NoPath PROVE ~Concerns(s, e)
    BY <1>1, <2>1 DEF Unplaced, Concerns, Here, Shown
  <2> QED BY <1>1, <2>1 DEF Unplaced
<1>9. Followed'
  <2> SUFFICES ASSUME NEW s \in Sides, panes'[s].path # NoPath PROVE Follows(s)'
    BY DEF Followed
  <2> DEFINE here == panes[s].path
  <2>1. Follows(s) /\ here \in Seq(Names) /\ here # NoPath
    BY <1>1, FoldersOfScene DEF Followed, NavTypes, PaneRec
  <2>2. /\ Shown(s)' = Shown(s) /\ (Failed(s)' <=> Failed(s))
        /\ \A d : IsCurrent(s, d) => IsCurrent(s, d)'
    BY <1>1, ShownStays DEF IsCurrent, Children
  <2>3. CASE missed[s] \/ timer[s]
    BY <1>1, <2>3 DEF Follows
  <2>4. CASE \E i \in DOMAIN wire : Touches(s, wire[i])
    <3>1. PICK i \in DOMAIN wire : Touches(s, wire[i])
      BY <2>4
    <3>2. CASE i = 1
      <4>1. Touches(s, e) /\ e.source = panes[s].source
        BY <1>3, <3>1, <3>2 DEF Touches
      <4>2. IsAtOrUnder(here, here)
        BY <2>1, AtOrUnder
      <4>3. Concerns(s, e) \/ Misses(s, e)
        BY <2>1, <4>1, <4>2 DEF Touches, Concerns, Misses
      <4> QED BY <1>1, <4>1, <4>3 DEF Follows
    <3>3. CASE i # 1
      <4>1. i - 1 \in DOMAIN wire' /\ wire'[i - 1] = wire[i]
        BY <1>3, <3>1, <3>3
      <4>2. Touches(s, wire[i]) => \A d : d = wire[i] => Touches(s, d)
        OBVIOUS
      <4>3. \A d : Touches(s, d) => Touches(s, d)'
        BY <1>1 DEF Touches
      <4>4. PICK d : d = wire[i] /\ Touches(s, d)'
        BY <3>1, <4>3
      <4> QED BY <4>1, <4>4 DEF Follows, Touches
    <3> QED BY <3>2, <3>3
  <2>5. CASE /\ \A m \in loads[s] : m.nonce = nav[s].nonce /\ m.at = "listed" => IsCurrent(s, m)
             /\ \/ Failed(s)
                \/ \E m \in loads[s] : m.nonce = nav[s].nonce
                \/ Shown(s).path = panes[s].path /\ IsCurrent(s, Shown(s))
    BY <1>1, <2>2, <2>5 DEF Follows, IsCurrent, Children
  <2> QED BY <2>1, <2>3, <2>4, <2>5 DEF Follows
<1> QED BY <1>4, <1>5, <1>6, <1>7, <1>8, <1>9

\* The history up to here, and one more.
LEMMA HistoryGrows ==
  ASSUME NEW S, NEW q \in Seq(S), NEW k \in 0..Len(q), NEW x \in S
  PROVE  Append(SubSeq(q, 1, k), x) \in Seq(S) /\ Len(Append(SubSeq(q, 1, k), x)) = k + 1
<1>1. Len(q) \in Nat /\ \A i \in 1..Len(q) : q[i] \in S
  BY LenProperties, ElementOfSeq
<1>2. k \in Nat /\ \A i \in 1..k : q[i] \in S
  BY <1>1
<1>3. SubSeq(q, 1, k) \in Seq(S) /\ Len(SubSeq(q, 1, k)) = IF 1 <= k THEN k - 1 + 1 ELSE 0
  BY <1>2, SubSeqProperties
<1>4. Len(SubSeq(q, 1, k)) = k
  BY <1>2, <1>3
<1> QED BY <1>3, <1>4, AppendProperties

\* A history cut at its cap is one.
LEMMA CappedIs ==
  ASSUME NEW S, NEW q \in Seq(S), Len(q) \in Nat \ {0}
  PROVE  Capped(q) \in Seq(S) /\ Len(Capped(q)) \in Nat
<1>1. q # <<>>
  BY EmptySeq
<1>2. Tail(q) \in Seq(S)
  BY <1>1, HeadTailProperties
<1> QED BY <1>2, LenProperties DEF Capped

\* What Land makes of the pane's history.
Seen(s, l) ==
  IF Stale(s, l) THEN nav[s]
  ELSE IF l.at = "failed" THEN [nav[s] EXCEPT !.failure = l.source]
  ELSE Remember([Onward(s) EXCEPT !.loaded = [source |-> l.source, path |-> l.path,
                                              names |-> l.names], !.failure = "none"], l.path)

\* The three ways a load ends: overtaken, as a failure, on display.
LEMMA LandSees ==
  ASSUME scene \in Scenes, NavTypes, Newest, NEW s \in Sides, NEW l \in loads[s], l.at # "sent"
  PROVE  /\ Seen(s, l) \in NavRec /\ Seen(s, l).idx <= Len(Seen(s, l).stack)
         /\ Seen(s, l).nonce = nav[s].nonce
         /\ \/ Stale(s, l) /\ Seen(s, l) = nav[s]
            \/ /\ ~Stale(s, l) /\ l.at = "failed" /\ Seen(s, l).failure = panes[s].source
               /\ Seen(s, l).loaded = nav[s].loaded /\ Seen(s, l).leaving = nav[s].leaving
            \/ /\ ~Stale(s, l) /\ l.at = "listed" /\ Seen(s, l).failure = "none"
               /\ Seen(s, l).leaving = NoPath
               /\ Seen(s, l).loaded = [source |-> panes[s].source, path |-> panes[s].path,
                                       names |-> l.names]
<1>1. /\ nav[s] \in NavRec /\ nav[s].idx <= Len(nav[s].stack) /\ l \in LoadRec
      /\ l.at \in {"listed", "failed"} /\ l.source \in Sources /\ l.path \in scene.paths
      /\ l.names \subseteq Names
      /\ ~Stale(s, l) => l.source = panes[s].source /\ l.path = panes[s].path
  BY DEF NavTypes, LoadRec, Newest, Stale
<1>2. CASE Stale(s, l)
  BY <1>1, <1>2 DEF Seen
<1>3. CASE ~Stale(s, l) /\ l.at = "failed"
  <2>1. Seen(s, l) = [nav[s] EXCEPT !.failure = l.source]
    BY <1>3 DEF Seen
  <2> QED BY <1>1, <1>3, <2>1 DEF NavRec
<1>4. CASE ~Stale(s, l) /\ l.at = "listed"
  <2> DEFINE listing == [source |-> l.source, path |-> l.path, names |-> l.names]
             h == [Onward(s) EXCEPT !.loaded = listing, !.failure = "none"]
  <2>1. Seen(s, l) = Remember(h, l.path) /\ listing \in ListingRec
    BY <1>1, <1>4 DEF Seen, ListingRec
  <2>2. h = [[[nav[s] EXCEPT !.leaving = NoPath] EXCEPT !.loaded = listing] EXCEPT !.failure = "none"]
    BY <1>1 DEF Onward, NavRec
  <2> HIDE DEF listing, h
  <2>3. /\ h \in NavRec /\ h.loaded = listing /\ h.failure = "none" /\ h.leaving = NoPath
        /\ h.nonce = nav[s].nonce /\ h.stack = nav[s].stack /\ h.idx = nav[s].idx
    BY <1>1, <2>1, <2>2 DEF NavRec
  <2>4. CASE h.travelling
    <3>1. Seen(s, l) = [h EXCEPT !.travelling = FALSE]
      BY <2>1, <2>4 DEF Remember
    <3>2. Seen(s, l) \in NavRec
      BY <2>3, <3>1 DEF NavRec
    <3>3. /\ Seen(s, l).stack = nav[s].stack /\ Seen(s, l).idx = nav[s].idx
          /\ Seen(s, l).loaded = listing /\ Seen(s, l).failure = "none"
          /\ Seen(s, l).leaving = NoPath /\ Seen(s, l).nonce = nav[s].nonce
      BY <2>3, <3>1 DEF NavRec
    <3> QED BY <1>1, <1>4, <3>2, <3>3 DEF listing
  <2>5. CASE ~h.travelling /\ h.idx > 0 /\ h.stack[h.idx] = l.path
    <3>1. Seen(s, l) = h
      BY <2>1, <2>5 DEF Remember
    <3> QED BY <1>1, <1>4, <2>3, <3>1 DEF listing
  <2>6. CASE ~h.travelling /\ ~(h.idx > 0 /\ h.stack[h.idx] = l.path)
    <3> DEFINE grown == Append(SubSeq(h.stack, 1, h.idx), l.path)
               stack == Capped(grown)
               next == Len(stack)
    <3>1. /\ h.stack \in Seq(scene.paths) /\ h.idx \in Nat /\ h.idx <= Len(h.stack)
          /\ Len(h.stack) \in Nat
      BY <1>1, <2>3, LenProperties DEF NavRec
    <3>2. grown \in Seq(scene.paths) /\ Len(grown) = h.idx + 1
      <4> DEFINE past == h.stack
                 k == h.idx
      <4>1. past \in Seq(scene.paths) /\ k \in 0..Len(past)
        BY <3>1
      <4> HIDE DEF past, k
      <4>2. /\ Append(SubSeq(past, 1, k), l.path) \in Seq(scene.paths)
            /\ Len(Append(SubSeq(past, 1, k), l.path)) = k + 1
        BY <1>1, <4>1, HistoryGrows
      <4> QED BY <4>2 DEF past, k
    <3>3. Seen(s, l) = [h EXCEPT !.stack = stack, !.idx = next]
      BY <2>1, <2>6 DEF Remember
    <3> HIDE DEF grown
    <3>7. stack \in Seq(scene.paths) /\ next \in Nat
      BY <3>1, <3>2, CappedIs
    <3> HIDE DEF stack
    <3>4. /\ Seen(s, l).stack = stack /\ Seen(s, l).idx = next
          /\ Seen(s, l).loaded = listing /\ Seen(s, l).failure = "none"
          /\ Seen(s, l).leaving = NoPath /\ Seen(s, l).nonce = nav[s].nonce
      BY <2>3, <3>3 DEF NavRec
    <3>6. Seen(s, l).idx <= Len(Seen(s, l).stack)
      BY <3>4, <3>7
    <3> HIDE DEF next
    <3>5. Seen(s, l) \in NavRec
      BY <2>3, <3>3, <3>7 DEF NavRec
    <3> QED BY <1>1, <1>4, <3>4, <3>6, <3>5 DEF listing
  <2> QED BY <2>4, <2>5, <2>6
<1> QED BY <1>1, <1>2, <1>3, <1>4

\* What the step does to the panes.
LEMMA LandIs ==
  ASSUME IInv, NEW s \in Sides, Land(s)
  PROVE  /\ scene \in Scenes /\ UNCHANGED <<scene, disk, wire, panes, missed, timer, dials, calls>>
         /\ UNCHANGED <<sort, sortVars, askVars>> /\ Settle(s, sel[s])
         /\ nav' \in [Sides -> NavRec] /\ loads' \in [Sides -> SUBSET LoadRec]
         /\ nav'[s].idx <= Len(nav'[s].stack)
         /\ \A t \in Sides \ {s} : nav'[t] = nav[t] /\ loads'[t] = loads[t]
         /\ \E l \in loads[s] :
              LET listing == [source |-> l.source, path |-> l.path, names |-> l.names] IN
              /\ loads'[s] = loads[s] \ {l}
              /\ loads'[s] # {} => nav'[s].nonce = nav[s].nonce
              /\ cache' = IF Stale(s, l) \/ l.at = "failed" THEN cache
                          ELSE [cache EXCEPT ![[src |-> l.source, path |-> l.path]] = listing]
              /\ \/ /\ Stale(s, l) /\ nav'[s].failure = nav[s].failure
                    /\ nav'[s].loaded = nav[s].loaded /\ nav'[s].leaving = nav[s].leaving
                 \/ /\ ~Stale(s, l) /\ l.at = "failed" /\ nav'[s].failure = panes[s].source
                    /\ nav'[s].loaded = nav[s].loaded /\ nav'[s].leaving = nav[s].leaving
                 \/ /\ ~Stale(s, l) /\ l.at = "listed" /\ nav'[s].failure = "none"
                    /\ nav'[s].leaving = NoPath
                    /\ nav'[s].loaded = [source |-> panes[s].source, path |-> panes[s].path,
                                         names |-> l.names]
<1> USE DEF IInv
<1>1. /\ scene \in Scenes /\ UNCHANGED <<scene, disk, wire, panes, missed, timer, dials, calls>>
      /\ UNCHANGED <<sort, sortVars, askVars>> /\ Settle(s, sel[s])
  BY DEF Land, BackTypes, backVars, sortVars
<1>2. PICK l \in loads[s] :
        LET listing == [source |-> l.source, path |-> l.path, names |-> l.names] IN
        /\ l.at # "sent"
        /\ loads' = [loads EXCEPT ![s] = @ \ {l}]
        /\ nav' = [nav EXCEPT ![s] = IF loads'[s] = {} THEN [Seen(s, l) EXCEPT !.nonce = 0]
                                     ELSE Seen(s, l)]
        /\ cache' = IF Stale(s, l) \/ l.at = "failed" THEN cache
                    ELSE [cache EXCEPT ![[src |-> l.source, path |-> l.path]] = listing]
  BY DEF Land, Seen
<1> DEFINE seen == Seen(s, l)
           set == IF loads'[s] = {} THEN [seen EXCEPT !.nonce = 0] ELSE seen
<1>3. /\ seen \in NavRec /\ seen.idx <= Len(seen.stack) /\ seen.nonce = nav[s].nonce
      /\ \/ Stale(s, l) /\ seen = nav[s]
         \/ /\ ~Stale(s, l) /\ l.at = "failed" /\ seen.failure = panes[s].source
            /\ seen.loaded = nav[s].loaded /\ seen.leaving = nav[s].leaving
         \/ /\ ~Stale(s, l) /\ l.at = "listed" /\ seen.failure = "none"
            /\ seen.leaving = NoPath
            /\ seen.loaded = [source |-> panes[s].source, path |-> panes[s].path,
                              names |-> l.names]
  BY <1>1, <1>2, LandSees
<1> HIDE DEF seen
<1>4. /\ set \in NavRec /\ set.idx <= Len(set.stack) /\ set.loaded = seen.loaded
      /\ set.failure = seen.failure /\ set.leaving = seen.leaving
      /\ loads'[s] # {} => set.nonce = nav[s].nonce
  <2>1. CASE loads'[s] = {}
    BY <1>3, <2>1 DEF NavRec
  <2>2. CASE loads'[s] # {}
    BY <1>3, <2>2
  <2> QED BY <2>1, <2>2
<1>5. nav' = [nav EXCEPT ![s] = set]
  BY <1>2 DEF seen
<1> HIDE DEF set
<1>6. /\ nav'[s] = set /\ nav' \in [Sides -> NavRec] /\ \A t \in Sides \ {s} : nav'[t] = nav[t]
      /\ loads'[s] = loads[s] \ {l} /\ loads' \in [Sides -> SUBSET LoadRec]
      /\ \A t \in Sides \ {s} : loads'[t] = loads[t]
  BY <1>2, <1>4, <1>5 DEF NavTypes
<1>7. \/ /\ Stale(s, l) /\ set.failure = nav[s].failure
         /\ set.loaded = nav[s].loaded /\ set.leaving = nav[s].leaving
      \/ /\ ~Stale(s, l) /\ l.at = "failed" /\ set.failure = panes[s].source
         /\ set.loaded = nav[s].loaded /\ set.leaving = nav[s].leaving
      \/ /\ ~Stale(s, l) /\ l.at = "listed" /\ set.failure = "none" /\ set.leaving = NoPath
         /\ set.loaded = [source |-> panes[s].source, path |-> panes[s].path,
                          names |-> l.names]
  BY <1>3, <1>4
<1> QED BY <1>1, <1>2, <1>4, <1>6, <1>7

\* A listing that lands is the newest, or it is dropped; so what was announced
\* before it was read is on display.
LEMMA LandKeeps == ASSUME IInv, NEW s \in Sides, Land(s) PROVE IInv'
<1> USE DEF IInv
<1>1. /\ scene \in Scenes /\ scene' = scene /\ disk' = disk /\ wire' = wire /\ panes' = panes
      /\ missed' = missed /\ timer' = timer
      /\ dials' = dials /\ calls' = calls /\ sortVars' = sortVars /\ askVars' = askVars
      /\ Settle(s, sel[s])
  BY LandIs
<1>2. PICK l \in loads[s] :
        LET listing == [source |-> l.source, path |-> l.path, names |-> l.names] IN
        /\ loads'[s] = loads[s] \ {l}
        /\ loads'[s] # {} => nav'[s].nonce = nav[s].nonce
        /\ cache' = IF Stale(s, l) \/ l.at = "failed" THEN cache
                    ELSE [cache EXCEPT ![[src |-> l.source, path |-> l.path]] = listing]
        /\ \/ /\ Stale(s, l) /\ nav'[s].failure = nav[s].failure
              /\ nav'[s].loaded = nav[s].loaded /\ nav'[s].leaving = nav[s].leaving
           \/ /\ ~Stale(s, l) /\ l.at = "failed" /\ nav'[s].failure = panes[s].source
              /\ nav'[s].loaded = nav[s].loaded /\ nav'[s].leaving = nav[s].leaving
           \/ /\ ~Stale(s, l) /\ l.at = "listed" /\ nav'[s].failure = "none"
              /\ nav'[s].leaving = NoPath
              /\ nav'[s].loaded = [source |-> panes[s].source, path |-> panes[s].path,
                                   names |-> l.names]
  BY LandIs
<1>3. /\ nav' \in [Sides -> NavRec] /\ \A t \in Sides \ {s} : nav'[t] = nav[t]
      /\ loads' \in [Sides -> SUBSET LoadRec] /\ nav'[s].idx <= Len(nav'[s].stack)
      /\ \A t \in Sides \ {s} : loads'[t] = loads[t]
  BY LandIs
<1>7. /\ sel' \in [Sides -> SelRec] /\ \A t \in Sides \ {s} : sel'[t] = sel[t]
      /\ sel'[s].menu # NoMenu => sel'[s].menu.path = Shown(s)'.path
      /\ Shown(s)'.path = Shown(s).path => sel'[s] = sel[s]
  <2>1. nav'[s].loaded \in ListingRec \cup {Nothing} /\ sel[s] \in SelRec
    BY <1>3 DEF NavRec, SelTypes
  <2> QED BY <1>1, <2>1, SettleSelects
<1>8. /\ PaneRec' = PaneRec /\ ListingRec' = ListingRec /\ LoadRec' = LoadRec
      /\ NavRec' = NavRec /\ SelRec' = SelRec
  BY <1>1, RecordsStay
<1>9. /\ cache' \in [[src : Sources, path : scene.paths] -> ListingRec \cup {Nothing}]
      /\ \A src \in Sources : \A p \in scene.paths :
           LET listing == cache'[[src |-> src, path |-> p]] IN
           listing # Nothing => listing.source = src /\ listing.path = p
  <2>1. CASE cache' = cache
    BY <2>1 DEF NavTypes
  <2>2. CASE cache' # cache
    <3> DEFINE listing == [source |-> l.source, path |-> l.path, names |-> l.names]
               key == [src |-> l.source, path |-> l.path]
    <3>1. cache' = [cache EXCEPT ![key] = listing]
      BY <1>2, <2>2
    <3>2. /\ listing \in ListingRec /\ listing.source = l.source /\ listing.path = l.path
          /\ l.source \in Sources /\ l.path \in scene.paths
      BY DEF NavTypes, LoadRec, ListingRec
    <3>3. key \in [src : Sources, path : scene.paths]
      BY <3>2
    <3>4. cache \in [[src : Sources, path : scene.paths] -> ListingRec \cup {Nothing}]
      BY DEF NavTypes
    <3> HIDE DEF listing
    <3>5. cache' \in [[src : Sources, path : scene.paths] -> ListingRec \cup {Nothing}]
      BY <3>1, <3>2, <3>4
    <3>6. ASSUME NEW src \in Sources, NEW p \in scene.paths,
                 cache'[[src |-> src, path |-> p]] # Nothing
          PROVE  /\ cache'[[src |-> src, path |-> p]].source = src
                 /\ cache'[[src |-> src, path |-> p]].path = p
      <4>1. CASE src = l.source /\ p = l.path
        <5>1. cache'[[src |-> src, path |-> p]] = listing
          BY <3>1, <3>3, <3>4, <4>1
        <5> QED BY <3>2, <4>1, <5>1
      <4>2. CASE ~(src = l.source /\ p = l.path)
        <5>1. /\ [src |-> src, path |-> p] \in [src : Sources, path : scene.paths]
              /\ [src |-> src, path |-> p] # key
          BY <4>2
        <5> HIDE DEF key
        <5>2. cache'[[src |-> src, path |-> p]] = cache[[src |-> src, path |-> p]]
          BY <3>1, <3>4, <5>1
        <5> QED BY <3>6, <5>2 DEF NavTypes
      <4> QED BY <4>1, <4>2
    <3> QED BY <3>5, <3>6
  <2> QED BY <2>1, <2>2
<1>10. NavTypes'
  <2>1. \A t \in Sides : nav'[t].idx <= Len(nav'[t].stack)
    BY <1>3 DEF NavTypes
  <2> QED BY <1>1, <1>3, <1>8, <1>9, <2>1 DEF NavTypes
<1>11. BackTypes' /\ SelTypes' /\ SortTypes' /\ AskTypes'
  BY <1>1, <1>7, <1>8 DEF BackTypes, SelTypes, SortTypes, AskTypes, sortVars, askVars
<1>12. panes[s].path # NoPath
  BY <1>2 DEF Unplaced
<1>13. Newest'
  <2>1. ASSUME NEW m \in loads'[s] PROVE m \in loads[s] /\ nav'[s].nonce = nav[s].nonce
    BY <1>2
  <2> QED BY <1>1, <1>3, <2>1 DEF Newest
<1>14. \A t \in Sides \ {s} :
        /\ panes'[t].path = NoPath =>
              nav'[t].loaded = Nothing /\ loads'[t] = {} /\ ~timer'[t] /\ nav'[t].failure = "none"
        /\ sel'[t].menu # NoMenu => sel'[t].menu.path = Shown(t)'.path
        /\ panes'[t].path # NoPath => Follows(t)'
        /\ LET left == nav'[t].leaving IN left # NoPath =>
             /\ left # Root /\ panes'[t].path = Parent(left)
             /\ nav'[t].loaded.source = panes'[t].source
             /\ \/ nav'[t].loaded.path = Parent(left)
                \/ nav'[t].loaded.path = left /\ sel'[t].landOn = BaseName(left)
  BY <1>1, <1>3, <1>7, OthersFollow
<1>15. Unplaced' /\ MenuIsShown'
  BY <1>1, <1>7, <1>12, <1>14 DEF Unplaced, MenuIsShown
<1>16. Leaving'
  <2>1. ASSUME nav'[s].leaving # NoPath
        PROVE  /\ nav[s].leaving = nav'[s].leaving /\ nav'[s].loaded = nav[s].loaded
               /\ sel'[s] = sel[s]
    <3>1. nav[s].leaving = nav'[s].leaving /\ nav'[s].loaded = nav[s].loaded
      BY <1>2, <2>1
    <3>2. Shown(s)' = Shown(s)
      BY <1>1, <3>1 DEF Shown
    <3> QED BY <1>7, <3>1, <3>2
  <2> QED BY <1>1, <1>14, <2>1 DEF Leaving
<1>17. Follows(s)'
  <2>1. Follows(s)
    BY <1>12 DEF Followed
  <2>2. \A d : /\ IsCurrent(s, d) => IsCurrent(s, d)'
               /\ Touches(s, d) => Touches(s, d)'
    BY <1>1 DEF IsCurrent, Children, Touches
  <2>3. CASE missed[s] \/ timer[s] \/ \E i \in DOMAIN wire : Touches(s, wire[i])
    BY <1>1, <2>3 DEF Follows, Touches
  <2>4. CASE /\ \A m \in loads[s] : m.nonce = nav[s].nonce /\ m.at = "listed" => IsCurrent(s, m)
             /\ \/ Failed(s)
                \/ \E m \in loads[s] : m.nonce = nav[s].nonce
                \/ Shown(s).path = panes[s].path /\ IsCurrent(s, Shown(s))
    <3>1. ASSUME NEW m \in loads'[s], m.nonce = nav'[s].nonce, m.at = "listed"
          PROVE  IsCurrent(s, m)'
      <4>1. m \in loads[s] /\ m.nonce = nav[s].nonce
        BY <1>2, <3>1
      <4> QED BY <2>2, <2>4, <3>1, <4>1
    <3>2. CASE Stale(s, l)
      <4>1. nav'[s].loaded = nav[s].loaded /\ nav'[s].failure = nav[s].failure
        BY <1>2, <3>2
      <4>2. Shown(s)' = Shown(s) /\ (Failed(s)' <=> Failed(s))
        BY <1>1, <4>1, ShownStays
      <4>3. (\E m \in loads[s] : m.nonce = nav[s].nonce)
              => \E m \in loads'[s] : m.nonce = nav'[s].nonce
        BY <1>2, <3>2 DEF Stale
      <4>4. IsCurrent(s, Shown(s)) => IsCurrent(s, Shown(s))'
        BY <1>1, <4>2 DEF IsCurrent, Children
      <4> QED BY <1>1, <2>4, <3>1, <4>2, <4>3, <4>4 DEF Follows
    <3>3. CASE ~Stale(s, l) /\ l.at = "failed"
      <4>1. Failed(s)'
        BY <1>1, <1>2, <3>3 DEF Failed
      <4> QED BY <3>1, <4>1 DEF Follows
    <3>4. CASE ~Stale(s, l) /\ l.at = "listed"
      <4>1. nav'[s].loaded = [source |-> panes[s].source, path |-> panes[s].path,
                              names |-> l.names]
        BY <1>2, <3>4
      <4>2. Shown(s)' = nav'[s].loaded
        BY <1>1, <4>1 DEF Shown
      <4>3. IsCurrent(s, l)
        BY <2>4, <3>4 DEF Stale
      <4>4. Shown(s)'.path = panes'[s].path /\ IsCurrent(s, Shown(s))'
        BY <1>1, <4>1, <4>2, <4>3 DEF IsCurrent, Children
      <4> QED BY <3>1, <4>4 DEF Follows
    <3> QED BY <1>2, <3>2, <3>3, <3>4
  <2> QED BY <2>1, <2>3, <2>4 DEF Follows
<1>18. Followed'
  BY <1>14, <1>17 DEF Followed
<1> QED BY <1>10, <1>11, <1>13, <1>15, <1>16, <1>18

-----------------------------------------------------------------------------
(* What a key or a click comes to.                                         *)

\* Names that are rows of the pane, or the one its menu was opened on; under an
\* error of the source, those picked.
Displayed(s, names) ==
  /\ names \subseteq ToSet(Entries(s)) \cup (IF sel[s].menu # NoMenu THEN {sel[s].menu.name} ELSE {})
  /\ Failed(s) => names \in Picked(s)

Chooses(s, chosen) ==
  /\ Selects(s, chosen) /\ chosen.landOn = sel[s].landOn
  /\ chosen.menu # NoMenu => chosen.menu.path = Shown(s).path

Selecting(s) == \E chosen \in SelRec : Chooses(s, chosen)

\* A place among rows is one of them.
LEMMA ClampIsRow ==
  ASSUME NEW rows, Len(rows) \in Nat \ {0}, NEW k \in Int
  PROVE  Clamp(k, rows) \in 1..Len(rows) /\ Clamp(k, rows) \in Nat \ {0}
BY DEF Clamp

\* A range of rows holds names.
LEMMA SpanIsRows ==
  ASSUME NEW rows \in Seq(Names), Len(rows) \in Nat \ {0}, NEW a \in Int, NEW k \in 1..Len(rows)
  PROVE  Span(rows, a, k) \subseteq Names
<1>1. Clamp(a, rows) \in 1..Len(rows)
  BY ClampIsRow
<1>2. \A i \in 1..Len(rows) : rows[i] \in Names
  BY ElementOfSeq
<1> QED BY <1>1, <1>2 DEF Span

\* The rows the keys and the pointer choose from.
LEMMA RowFacts ==
  ASSUME IInv, NEW s \in Sides
  PROVE  LET rows == Entries(s) IN
         /\ sel[s] \in SelRec /\ rows \in Seq(Names) /\ Len(rows) \in Nat
         /\ DOMAIN rows = 1..Len(rows) /\ ToSet(rows) \subseteq Names
         /\ \A k \in DOMAIN rows : /\ k \in Nat \ {0} /\ rows[k] \in Names /\ rows[k] \in ToSet(rows)
                                   /\ Len(rows) \in Nat \ {0}
                                   /\ Shown(s).path \in scene.paths
         /\ rows # <<>> => Len(rows) \in Nat \ {0}
         /\ \A names \in SUBSET ToSet(rows) : names # {} => Shown(s) # Nothing
         /\ sel[s].menu # NoMenu => sel[s].menu.path = Shown(s).path
         /\ Selection(s) \subseteq ToSet(rows)
<1> USE DEF IInv
<1>1. scene \in Scenes
  BY DEF BackTypes
<1>2. /\ sel[s] \in SelRec
      /\ Entries(s) \in Seq(Names) /\ Len(Entries(s)) \in Nat
      /\ DOMAIN Entries(s) = 1..Len(Entries(s))
      /\ ToSet(Entries(s)) \subseteq Names
      /\ \A k \in DOMAIN Entries(s) : /\ Entries(s)[k] \in Names
                                      /\ Entries(s)[k] \in ToSet(Entries(s))
                                      /\ Shown(s) # Nothing
      /\ \A n \in ToSet(Entries(s)) : Shown(s) # Nothing
      /\ Entries(s) # <<>> => Len(Entries(s)) >= 1
      /\ Selection(s) \subseteq ToSet(Entries(s))
  BY <1>1, RowsOnDisplay
<1>3. Shown(s) # Nothing => Shown(s).path \in scene.paths
  BY <1>1, WhatIsShown
<1> QED BY <1>2, <1>3 DEF MenuIsShown

\* Every way to select leaves a selection of the pane's type.
LEMMA SelectionsAreTyped ==
  ASSUME IInv, NEW s \in Sides
  PROVE  /\ \A k, ctrl, shift : SelectAt(s, k, ctrl, shift) => Selecting(s)
         /\ \A k \in Int : \A extend : MoveTo(s, k, extend) => Selecting(s)
         /\ \A k : JumpTo(s, k) => Selecting(s)
         /\ \A step : ToggleMark(s, step) => Selecting(s)
         /\ MarkMany(s) => Selecting(s)
         /\ \A pass \in SUBSET Names : SetFilter(s, pass) => Selecting(s)
         /\ \A k : OpenMenu(s, k) => Selecting(s)
         /\ Selects(s, [sel[s] EXCEPT !.marks = {}]) => Selecting(s)
         /\ OpenBgMenu(s) => Selecting(s)
<1> DEFINE rows == Entries(s)
           old == sel[s]
<1>1. /\ old \in SelRec /\ rows \in Seq(Names) /\ Len(rows) \in Nat
      /\ DOMAIN rows = 1..Len(rows) /\ ToSet(rows) \subseteq Names
      /\ \A k \in DOMAIN rows : /\ k \in Nat \ {0} /\ rows[k] \in Names /\ rows[k] \in ToSet(rows)
                                /\ Len(rows) \in Nat \ {0}
                                /\ Shown(s).path \in scene.paths
      /\ rows # <<>> => Len(rows) \in Nat \ {0}
      /\ old.menu # NoMenu => old.menu.path = Shown(s).path
  BY RowFacts
<1>2. /\ old.cursor \in Nat \ {0} /\ old.anchor \in Nat \ {0} /\ old.marks \subseteq Names
      /\ old.filter \subseteq Names
  BY <1>1 DEF SelRec
<1> HIDE DEF rows, old
<1>3. ASSUME NEW chosen \in SelRec, chosen.landOn = old.landOn, Selects(s, chosen),
             chosen.menu # NoMenu => chosen.menu.path = Shown(s).path
      PROVE  Selecting(s)
  BY <1>3 DEF Selecting, Chooses, old
<1>4. ASSUME NEW k, NEW ctrl, NEW shift, SelectAt(s, k, ctrl, shift) PROVE Selecting(s)
  <2> DEFINE range == Span(rows, old.anchor, k)
             n == rows[k]
             marks == IF shift THEN (IF ctrl THEN old.marks \cup range ELSE range)
                      ELSE IF ~ctrl THEN {n}
                      ELSE IF n \in old.marks THEN old.marks \ {n} ELSE old.marks \cup {n}
             anchor == IF shift THEN old.anchor ELSE k
             chosen == [old EXCEPT !.cursor = k, !.marks = marks, !.menu = NoMenu,
                                   !.bgMenu = FALSE, !.anchor = anchor]
  <2>1. k \in DOMAIN rows /\ Selects(s, chosen)
    BY <1>4 DEF SelectAt, rows, old
  <2>2. k \in Nat \ {0} /\ n \in Names /\ range \subseteq Names
    BY <1>1, <1>2, <2>1, SpanIsRows
  <2>3. marks \subseteq Names /\ anchor \in Nat \ {0}
    BY <1>2, <2>2
  <2> HIDE DEF marks, anchor
  <2>4. chosen \in SelRec /\ chosen.landOn = old.landOn /\ chosen.menu = NoMenu
    BY <1>1, <2>2, <2>3 DEF SelRec, MenuRec
  <2> QED BY <1>3, <2>1, <2>4
<1>5. ASSUME NEW k \in Int, NEW extend, MoveTo(s, k, extend) PROVE Selecting(s)
  <2> DEFINE at == Clamp(k, rows)
             anchor == IF extend THEN old.anchor ELSE at
             marks == IF extend THEN Span(rows, old.anchor, at) ELSE old.marks
             chosen == [old EXCEPT !.cursor = at, !.anchor = anchor, !.marks = marks]
  <2>1. rows # <<>> /\ Selects(s, chosen)
    BY <1>5 DEF MoveTo, rows, old
  <2>2. at \in 1..Len(rows) /\ at \in Nat \ {0} /\ Len(rows) \in Nat \ {0}
    BY <1>1, <2>1, ClampIsRow
  <2>3. marks \subseteq Names /\ anchor \in Nat \ {0}
    BY <1>1, <1>2, <2>2, SpanIsRows
  <2> HIDE DEF at, marks, anchor
  <2>4. chosen \in SelRec /\ chosen.landOn = old.landOn /\ chosen.menu = old.menu
    BY <1>1, <2>2, <2>3 DEF SelRec
  <2> QED BY <1>1, <1>3, <2>1, <2>4
<1>6. ASSUME NEW k, JumpTo(s, k) PROVE Selecting(s)
  <2> DEFINE chosen == [old EXCEPT !.cursor = k, !.anchor = k]
  <2>1. k \in Nat \ {0} /\ Selects(s, chosen)
    BY <1>1, <1>6 DEF JumpTo, rows, old
  <2>2. chosen \in SelRec /\ chosen.landOn = old.landOn /\ chosen.menu = old.menu
    BY <1>1, <2>1 DEF SelRec
  <2> QED BY <1>1, <1>3, <2>1, <2>2
<1>7. ASSUME NEW step, ToggleMark(s, step) PROVE Selecting(s)
  <2> DEFINE n == CursorName(s)
             marks == IF n \in old.marks THEN old.marks \ {n} ELSE old.marks \cup {n}
             at == Clamp(old.cursor + 1, rows)
             stepped == [old EXCEPT !.marks = marks, !.cursor = at, !.anchor = at]
             stayed == [old EXCEPT !.marks = marks]
  <2>1. n # 0 /\ (Selects(s, stepped) \/ Selects(s, stayed))
    BY <1>7 DEF ToggleMark, rows, old
  <2>2. old.cursor \in DOMAIN rows /\ n = rows[old.cursor]
    BY <2>1 DEF CursorName, rows, old
  <2>3. n \in Names /\ at \in Nat \ {0}
    <3>1. old.cursor + 1 \in Int /\ Len(rows) \in Nat \ {0} /\ n \in Names
      BY <1>1, <1>2, <2>2
    <3> QED BY <3>1, ClampIsRow
  <2>4. marks \in SUBSET Names
    BY <1>2, <2>3
  <2> HIDE DEF n, marks, at
  <2>5. /\ stepped \in SelRec /\ stepped.landOn = old.landOn /\ stepped.menu = old.menu
        /\ stayed \in SelRec /\ stayed.landOn = old.landOn /\ stayed.menu = old.menu
    BY <1>1, <2>3, <2>4 DEF SelRec
  <2> QED BY <1>1, <1>3, <2>1, <2>5
<1>8. ASSUME NEW marks \in SUBSET Names, Selects(s, [old EXCEPT !.marks = marks]) PROVE Selecting(s)
  <2> DEFINE chosen == [old EXCEPT !.marks = marks]
  <2>1. chosen \in SelRec /\ chosen.landOn = old.landOn /\ chosen.menu = old.menu
    BY <1>1 DEF SelRec
  <2> QED BY <1>1, <1>3, <1>8, <2>1
<1>9. MarkMany(s) => Selecting(s)
  <2> SUFFICES ASSUME MarkMany(s) PROVE Selecting(s)
    OBVIOUS
  <2>1. PICK marks \in {ToSet(rows) \ old.marks, ToSet(rows), {}} :
          Selects(s, [old EXCEPT !.marks = marks])
    BY DEF MarkMany, rows, old
  <2>2. marks \in SUBSET Names
    BY <1>1, <2>1
  <2> QED BY <1>8, <2>1, <2>2
<1>10. ASSUME NEW pass \in SUBSET Names, SetFilter(s, pass) PROVE Selecting(s)
  <2> DEFINE chosen == [old EXCEPT !.filter = pass]
  <2>1. chosen \in SelRec /\ chosen.landOn = old.landOn /\ chosen.menu = old.menu
    BY <1>1 DEF SelRec
  <2>2. Selects(s, chosen)
    BY <1>10 DEF SetFilter, old
  <2> QED BY <1>1, <1>3, <2>1, <2>2
<1>11. ASSUME NEW k, OpenMenu(s, k) PROVE Selecting(s)
  <2> DEFINE menu == [name |-> rows[k], path |-> Shown(s).path]
             marks == IF old.marks # {} /\ rows[k] \notin old.marks THEN {rows[k]} ELSE old.marks
             chosen == [old EXCEPT !.cursor = k, !.menu = menu, !.bgMenu = FALSE, !.marks = marks]
  <2>1. k \in DOMAIN rows /\ Selects(s, chosen)
    BY <1>11 DEF OpenMenu, rows, old
  <2>2. k \in Nat \ {0} /\ rows[k] \in Names /\ Shown(s).path \in scene.paths
    BY <1>1, <2>1
  <2>3. menu \in MenuRec /\ menu.path = Shown(s).path /\ marks \in SUBSET Names
    BY <1>2, <2>2 DEF MenuRec
  <2> HIDE DEF menu, marks
  <2>4. chosen \in SelRec /\ chosen.landOn = old.landOn /\ chosen.menu = menu
    BY <1>1, <2>2, <2>3 DEF SelRec
  <2> QED BY <1>3, <2>1, <2>3, <2>4
<1>12. OpenBgMenu(s) => Selecting(s)
  <2> DEFINE chosen == [old EXCEPT !.menu = NoMenu, !.bgMenu = TRUE]
  <2>1. chosen \in SelRec /\ chosen.landOn = old.landOn /\ chosen.menu = NoMenu
    BY <1>1 DEF SelRec, MenuRec
  <2>2. OpenBgMenu(s) => Selects(s, chosen)
    BY DEF OpenBgMenu, old
  <2> QED BY <1>3, <2>1, <2>2
<1> QED BY <1>4, <1>5, <1>6, <1>7, <1>8, <1>9, <1>10, <1>11, <1>12 DEF old

Asked(s) ==
  \/ \E names \in SUBSET Names : Displayed(s, names) /\ (Enqueue(s, names) \/ DoDelete(s, names))
  \/ \E n \in Names : Displayed(s, {n}) /\ DoRename(s, n)
  \/ DoMkdir(s)

Answered(s) ==
  \/ CloseConfirm(s) \/ ClosePrompt(s)
  \/ \E silence \in BOOLEAN : AcceptConfirm(s, silence)
  \/ \E new \in Names : AcceptPrompt(s, new)

Moving(s) ==
  \/ \E p \in scene.paths : Navigate(s, p)
  \/ NavigateTyped(s) \/ GoUp(s) \/ Reload(s)
  \/ \E delta \in {-1, 1} : Travel(s, delta)

Dialling(s) == (\E src \in Sources : SwitchSource(s, src)) \/ Reconnect(s)

Sorting(s) == \E k \in SortKey : SortHeader(s, k)

\* Whatever is pressed, and wherever, it is one of these, and what it acts on
\* is listed.
LEMMA PressIs ==
  ASSUME IInv, NEW s \in Sides, Press(s)
  PROVE  \/ Selecting(s) \/ Moving(s) \/ Dialling(s) \/ Sorting(s) \/ Asked(s) \/ Answered(s)
<1> DEFINE rows == Entries(s)
           Goal == \/ Selecting(s) \/ Moving(s) \/ Dialling(s) \/ Sorting(s) \/ Asked(s)
                   \/ Answered(s)
<1>1. /\ sel[s] \in SelRec /\ rows \in Seq(Names) /\ Len(rows) \in Nat
      /\ DOMAIN rows = 1..Len(rows) /\ ToSet(rows) \subseteq Names
      /\ \A k \in DOMAIN rows : /\ k \in Nat \ {0} /\ rows[k] \in Names /\ rows[k] \in ToSet(rows)
      /\ Selection(s) \subseteq ToSet(rows)
  BY RowFacts
<1>2. ~Failed(s) => \A n \in ToSet(rows) : Displayed(s, {n}) /\ n \in Names
  BY <1>1 DEF Displayed
<1>3. Displayed(s, Selection(s)) /\ Selection(s) \in SUBSET Names
  BY <1>1 DEF Displayed, Picked
<1>4. ASSUME sel[s].menu # NoMenu
      PROVE  LET n == sel[s].menu.name IN
             /\ n \in Names /\ Displayed(s, {n})
             /\ Displayed(s, MenuTargets(s)) /\ MenuTargets(s) \in SUBSET Names
  <2>1. sel[s].menu.name \in Names
    BY <1>1, <1>4 DEF SelRec, MenuRec
  <2>2. \A names \in {{sel[s].menu.name}, MenuTargets(s)} : names \in Picked(s)
    BY DEF Picked
  <2> QED BY <1>1, <1>4, <2>1, <2>2 DEF Displayed, MenuTargets
<1>5. ASSUME NEW n \in ToSet(rows), Open(s, n), ~Failed(s) PROVE Goal
  BY <1>2, <1>5 DEF Open, Moving, Asked
<1>6. ASSUME OnListKeyDown(s) PROVE Goal
  <2>6. ~Failed(s)
    BY <1>6 DEF OnListKeyDown, Listed
  <2>1. CASE SetFilter(s, NoFilter) \/ GoUp(s)
    BY <2>1, SelectionsAreTyped DEF Moving, NoFilter
  <2>2. CASE \E k \in {sel[s].cursor - 1, sel[s].cursor + 1, 1, Len(rows)}, extend \in BOOLEAN :
                MoveTo(s, k, extend)
    <3>1. sel[s].cursor \in Nat
      BY <1>1 DEF SelRec
    <3>2. /\ sel[s].cursor - 1 \in Int /\ sel[s].cursor + 1 \in Int /\ 1 \in Int
          /\ Len(rows) \in Int
      BY <1>1, <3>1
    <3> QED BY <2>2, <3>2, SelectionsAreTyped
  <2>3. CASE \/ \E k \in DOMAIN rows : JumpTo(s, k)
             \/ \E step \in BOOLEAN : ToggleMark(s, step)
             \/ MarkMany(s)
    BY <2>3, SelectionsAreTyped
  <2>4. CASE \E k \in SortKey : SortHeader(s, k)
    BY <2>4 DEF Sorting
  <2>5. CASE sel[s].cursor \in DOMAIN rows /\ Open(s, rows[sel[s].cursor])
    BY <1>1, <1>5, <2>5, <2>6
  <2> QED BY <1>6, <2>1, <2>2, <2>3, <2>4, <2>5 DEF OnListKeyDown
<1>7. ASSUME RowPointer(s), Listed(s) PROVE Goal
  <2>1. CASE \E k \in DOMAIN rows : \/ \E ctrl, shift \in BOOLEAN : SelectAt(s, k, ctrl, shift)
                                    \/ OpenMenu(s, k)
    BY <2>1, SelectionsAreTyped
  <2>2. CASE \E k \in DOMAIN rows : Open(s, rows[k])
    BY <1>1, <1>5, <1>7, <2>2 DEF Listed
  <2>3. CASE Selects(s, [sel[s] EXCEPT !.marks = {}]) \/ OpenBgMenu(s)
    BY <2>3, SelectionsAreTyped
  <2> QED BY <1>7, <2>1, <2>2, <2>3 DEF RowPointer
<1>8. ASSUME RowMenu(s) PROVE Goal
  <2> DEFINE n == sel[s].menu.name
  <2>1. /\ sel[s].menu # NoMenu
        /\ \/ Enqueue(s, MenuTargets(s)) \/ DoDelete(s, MenuTargets(s))
           \/ n \in Folders /\ Open(s, n)
           \/ DoRename(s, n)
           \/ DoMkdir(s) \/ Reload(s) \/ \E k \in SortKey : SortHeader(s, k)
    BY <1>8 DEF RowMenu
  <2>2. CASE Enqueue(s, MenuTargets(s)) \/ DoDelete(s, MenuTargets(s)) \/ DoRename(s, n)
    BY <1>4, <2>1, <2>2 DEF Asked
  <2>3. CASE n \in Folders /\ Open(s, n)
    <3>1. n \notin Files
      BY <2>3, NameAssumption
    <3> QED BY <2>3, <3>1 DEF Open, Moving
  <2>4. CASE DoMkdir(s) \/ Reload(s) \/ \E k \in SortKey : SortHeader(s, k)
    BY <2>4 DEF Asked, Moving, Sorting
  <2> QED BY <2>1, <2>2, <2>3, <2>4
<1>9. ASSUME PaneBar(s) PROVE Goal
  <2>1. CASE \E k \in 0..Len(Here(s)) : Navigate(s, SubSeq(Here(s), 1, k))
    <3>1. PICK k \in 0..Len(Here(s)) : Navigate(s, SubSeq(Here(s), 1, k))
      BY <2>1
    <3>2. Here(s) \in scene.paths
      <4>1. panes[s].path # NoPath /\ scene \in Scenes
        BY <3>1 DEF Navigate, IInv, BackTypes
      <4> QED BY <4>1, WhatIsShown DEF IInv, PaneRec
    <3>3. SubSeq(Here(s), 1, k) \in scene.paths
      BY <3>2, FoldersOfScene DEF IInv, BackTypes
    <3> QED BY <3>1, <3>3 DEF Moving
  <2>2. CASE \/ \E src \in Sources : SwitchSource(s, src)
             \/ \E delta \in {-1, 1} : Travel(s, delta)
             \/ GoUp(s) \/ Reload(s) \/ NavigateTyped(s)
    BY <2>2 DEF Moving, Dialling
  <2> QED BY <1>9, <2>1, <2>2 DEF PaneBar
<1>10. ASSUME \/ Enqueue(s, Selection(s)) \/ DoDelete(s, Selection(s))
              \/ \E n \in Names : Selection(s) = {n} /\ DoRename(s, n)
       PROVE  Goal
  <2>1. \A n \in Names : Selection(s) = {n} => Displayed(s, {n})
    BY <1>3
  <2> QED BY <1>3, <1>10, <2>1 DEF Asked
<1>11. ASSUME Shortcuts(s) \/ PaneCommands(s) PROVE Goal
  <2>1. CASE \/ \E delta \in {-1, 1} : Travel(s, delta)
             \/ GoUp(s) \/ Reload(s) \/ DoMkdir(s) \/ MarkMany(s)
             \/ \E src \in Sources : SwitchSource(s, src)
    BY <2>1, SelectionsAreTyped DEF Moving, Asked, Dialling
  <2> QED BY <1>10, <1>11, <2>1 DEF Shortcuts, PaneCommands
<1>12. ASSUME Dialogs(s) PROVE Goal
  BY <1>12 DEF Dialogs, Answered
<1>13. ASSUME FilterStrip(s) PROVE Goal
  <2>1. \A pass \in {NoFilter, Files} : pass \in SUBSET Names
    BY DEF NoFilter, Names
  <2> QED BY <1>13, <2>1, SelectionsAreTyped DEF FilterStrip
<1>14. ASSUME PathMenu(s) \/ ErrorPanel(s) \/ Headings(s) PROVE Goal
  BY <1>14 DEF PathMenu, ErrorPanel, Headings, Moving, Dialling, Sorting
<1>15. ASSUME BgMenu(s) PROVE Goal
  BY <1>15, SelectionsAreTyped DEF BgMenu, Asked, Moving, Sorting
<1> HIDE DEF Goal
<1>16. Goal
  BY <1>6, <1>7, <1>8, <1>9, <1>11, <1>12, <1>13, <1>14, <1>15 DEF Press
<1> QED BY <1>16 DEF Goal

-----------------------------------------------------------------------------
(* Every other step leads a pane somewhere or leaves the panes still.      *)

\* Where a pane is led when nothing is left by "up".
LEMMA OnwardGoes ==
  ASSUME IInv, NEW s \in Sides, NEW src \in Sources, NEW p \in scene.paths
  PROVE  Going(s, [source |-> src, path |-> p], Onward(s), sel[s])
<1>1. nav[s] \in NavRec /\ nav[s].idx <= Len(nav[s].stack) /\ sel[s] \in SelRec
  BY DEF IInv, NavTypes, SelTypes
<1>2. /\ Onward(s) \in NavRec /\ Onward(s).idx = nav[s].idx /\ Onward(s).stack = nav[s].stack
      /\ Onward(s).loaded = nav[s].loaded /\ Onward(s).failure = nav[s].failure
      /\ Onward(s).nonce = nav[s].nonce /\ Onward(s).leaving = NoPath
  BY <1>1 DEF Onward, NavRec
<1> QED BY <1>1, <1>2 DEF Going

\* Reading the folder again.
LEMMA AgainGoes ==
  ASSUME IInv, NEW s \in Sides, panes[s].path # NoPath, NEW chosen \in SelRec,
         chosen.menu = sel[s].menu, chosen.landOn = sel[s].landOn, chosen.filter = sel[s].filter
  PROVE  Going(s, panes[s], nav[s], chosen)
<1>1. nav[s] \in NavRec /\ nav[s].idx <= Len(nav[s].stack) /\ panes[s] \in PaneRec
  BY DEF IInv, NavTypes
<1>2. panes[s] \in [source : Sources, path : scene.paths]
  BY <1>1 DEF PaneRec
<1> QED BY <1>1, <1>2 DEF Going

\* Setting a pane leads it there.
LEMMA SetPaneLeads ==
  ASSUME NEW s \in Sides, NEW src, NEW p, NEW kept, NEW chosen, SetPane(s, src, p, kept),
         Settle(s, chosen), timer' = timer, Going(s, [source |-> src, path |-> p], kept, chosen)
  PROVE  Leads(s, [source |-> src, path |-> p], kept, chosen)
BY DEF SetPane, Leads

\* A pane led while the rest is left alone is a step of that kind.
LEMMA LeadsIsLeadStep ==
  ASSUME NEW s \in Sides, NEW now, NEW kept, NEW chosen, Leads(s, now, kept, chosen),
         UNCHANGED <<scene, disk, wire, sortVars, askVars>>,
         calls' \subseteq calls, dials' \subseteq dials
  PROVE  LeadStep
<1>1. now \in PaneRec /\ kept \in NavRec /\ chosen \in SelRec
  BY DEF Leads, Going, PaneRec
<1> QED BY <1>1 DEF LeadStep

\* A selection that settles on what was shown before is the one chosen.
LEMMA SettleStays ==
  ASSUME NEW s \in Sides, NEW chosen, UNCHANGED <<panes, navVars>>, Settle(s, chosen)
  PROVE  sel' = [sel EXCEPT ![s] = chosen]
<1>1. panes' = panes /\ nav' = nav
  BY DEF navVars
<1>2. Shown(s)' = Shown(s)
  BY <1>1, ShownStays
<1> QED BY <1>1, <1>2 DEF Settle

\* Questions, calls and sorts that stay keep their types.
LEMMA AskingStays ==
  ASSUME AskTypes, UNCHANGED <<panes, askVars>>, calls' \subseteq calls
  PROVE  AskTypes'
BY DEF AskTypes, askVars

\* The sort keeps its type when left alone.
LEMMA SortStays == SortTypes /\ UNCHANGED sortVars => SortTypes'
BY DEF SortTypes, sortVars

\* A step that leaves the panes and the selections alone is still.
LEMMA QuietIsStill ==
  ASSUME IInv, UNCHANGED <<scene, disk, wire, panes, navVars, timer, sel>>,
         SortTypes', AskTypes', dials' \subseteq DialRec
  PROVE  StillStep
<1>1. sel' = [sel EXCEPT ![0] = sel[0]] /\ sel[0] \in SelRec /\ 0 \in Sides
  BY DEF IInv, SelTypes, Sides
<1>2. sel[0].menu # NoMenu => sel[0].menu.path = Shown(0).path
  BY <1>1 DEF IInv, MenuIsShown
<1> QED BY <1>1, <1>2 DEF StillStep

\* Keys that move lead the pane, or there is nowhere to go.
LEMMA MovingIs ==
  ASSUME IInv, NEW s \in Sides, Moving(s), UserFrame
  PROVE  LeadStep \/ StillStep
<1> USE DEF IInv
<1>1. /\ scene \in Scenes /\ UNCHANGED <<scene, disk, wire, timer>>
      /\ UNCHANGED <<sortVars, askVars, calls, dials>>
  BY DEF Moving, Navigate, NavigateTyped, GoUp, Reload, Travel, Goes, NoSort, NoAsking, UserFrame,
         backVars, BackTypes
<1>2. \A now, kept, chosen : Leads(s, now, kept, chosen) => LeadStep
  BY <1>1, LeadsIsLeadStep
<1>3. /\ sel[s] \in SelRec /\ nav[s] \in NavRec /\ nav[s].idx <= Len(nav[s].stack)
      /\ panes[s] \in PaneRec /\ panes[s].source \in Sources
  BY DEF SelTypes, NavTypes, PaneRec
<1>4. CASE \E p \in scene.paths : Navigate(s, p)
  <2>1. PICK p \in scene.paths : Navigate(s, p)
    BY <1>4
  <2>2. Going(s, [source |-> panes[s].source, path |-> p], Onward(s), sel[s])
    BY <1>3, OnwardGoes
  <2>3. SetPane(s, panes[s].source, p, Onward(s)) /\ Settle(s, sel[s])
    BY <2>1 DEF Navigate, SetPath, Goes
  <2> QED BY <1>1, <1>2, <2>2, <2>3, SetPaneLeads
<1>5. CASE NavigateTyped(s)
  <2>1. Going(s, [source |-> "local", path |-> Root], Onward(s), sel[s])
    BY <1>1, PaneConstants, FoldersOfScene, OnwardGoes
  <2>2. /\ BeginLoad(s, [source |-> "local", path |-> Root], Onward(s)) /\ Settle(s, sel[s])
    BY <1>5 DEF NavigateTyped, Goes
  <2> QED BY <1>1, <1>2, <2>1, <2>2 DEF Leads
<1>6. CASE Reload(s)
  <2>1. Going(s, panes[s], nav[s], sel[s])
    BY <1>3, <1>6, AgainGoes DEF Reload
  <2>2. BeginLoad(s, panes[s], nav[s]) /\ Settle(s, sel[s])
    BY <1>6 DEF Reload, ReloadPane, Goes
  <2> QED BY <1>1, <1>2, <2>1, <2>2 DEF Leads
<1>7. CASE \E delta \in {-1, 1} : Travel(s, delta)
  <2>1. PICK delta \in {-1, 1} : Travel(s, delta)
    BY <1>7
  <2> DEFINE idx == nav[s].idx + delta
             kept == [Onward(s) EXCEPT !.idx = @ + delta, !.travelling = TRUE]
             p == nav[s].stack[idx]
             now == [source |-> panes[s].source, path |-> p]
  <2>2. idx \in DOMAIN nav[s].stack /\ SetPane(s, panes[s].source, p, kept) /\ Settle(s, sel[s])
    BY <2>1 DEF Travel, Goes
  <2>3. /\ nav[s].stack \in Seq(scene.paths) /\ DOMAIN nav[s].stack = 1..Len(nav[s].stack)
        /\ Len(nav[s].stack) \in Nat
    BY <1>3, LenProperties DEF NavRec
  <2>4. p \in scene.paths /\ idx \in Nat /\ idx <= Len(nav[s].stack)
    BY <2>2, <2>3, ElementOfSeq
  <2>5. Onward(s) = [nav[s] EXCEPT !.leaving = NoPath] /\ Onward(s).idx = nav[s].idx
    BY <1>3 DEF Onward, NavRec
  <2>6. kept = [Onward(s) EXCEPT !.idx = idx, !.travelling = TRUE]
    BY <2>5
  <2> HIDE DEF idx, kept, p
  <2>7. /\ kept \in NavRec /\ kept.idx = idx /\ kept.stack = nav[s].stack
        /\ kept.loaded = nav[s].loaded /\ kept.failure = nav[s].failure
        /\ kept.nonce = nav[s].nonce /\ kept.leaving = NoPath
    BY <1>3, <2>4, <2>5, <2>6 DEF NavRec
  <2>8. Going(s, now, kept, sel[s])
    BY <1>3, <2>4, <2>7 DEF Going
  <2> QED BY <1>1, <1>2, <2>2, <2>8, SetPaneLeads
<1>8. CASE GoUp(s)
  <2> DEFINE here == Here(s)
             land == IF here \in {Root, NoPath} THEN 0 ELSE BaseName(here)
             chosen == [sel[s] EXCEPT !.landOn = land, !.filter = NoFilter]
             kept == [nav[s] EXCEPT !.leaving = here]
  <2>1. /\ IF Shown(s) # Nothing /\ here # Root
           THEN SetPane(s, panes[s].source, Parent(here), kept)
           ELSE NoNav
        /\ Settle(s, chosen)
    BY <1>8 DEF GoUp, Goes
  <2>2. here \in scene.paths \cup {NoPath}
    BY <1>1, <1>3, WhatIsShown DEF PaneRec
  <2>3. land \in Nat
    <3>1. here \in {Root, NoPath} \/ BaseName(here) \in Names
      BY <1>1, <2>2, FoldersOfScene
    <3> QED BY <3>1, NameAssumption
  <2> HIDE DEF land
  <2>4. /\ chosen \in SelRec /\ chosen.menu = sel[s].menu /\ chosen.landOn = land
        /\ chosen.filter = NoFilter
    BY <1>3, <2>3 DEF SelRec, NoFilter
  <2> HIDE DEF chosen
  <2>5. CASE Shown(s) # Nothing /\ here # Root
    <3>1. /\ here = nav[s].loaded.path /\ nav[s].loaded.source = panes[s].source
          /\ here \in scene.paths /\ here # NoPath
      BY <1>1, <2>5, WhatIsShown, FoldersOfScene
    <3>2. Parent(here) \in scene.paths /\ land = BaseName(here)
      BY <1>1, <2>5, <3>1, FoldersOfScene DEF land
    <3> HIDE DEF here
    <3>3. /\ kept \in NavRec /\ kept.idx = nav[s].idx /\ kept.stack = nav[s].stack
          /\ kept.loaded = nav[s].loaded /\ kept.failure = nav[s].failure
          /\ kept.nonce = nav[s].nonce /\ kept.leaving = here
      BY <1>3, <3>1 DEF NavRec
    <3> HIDE DEF kept
    <3>4. Going(s, [source |-> panes[s].source, path |-> Parent(here)], kept, chosen)
      BY <1>3, <2>4, <2>5, <3>1, <3>2, <3>3 DEF Going
    <3> QED BY <1>1, <1>2, <2>1, <2>5, <3>4, SetPaneLeads
  <2>6. CASE Shown(s) = Nothing \/ here = Root
    <3>1. UNCHANGED <<panes, navVars>>
      BY <2>1, <2>6 DEF NoNav
    <3>2. sel' = [sel EXCEPT ![s] = chosen]
      BY <2>1, <3>1, SettleStays
    <3>3. chosen.menu # NoMenu => chosen.menu.path = Shown(s).path
      BY <2>4 DEF MenuIsShown
    <3>4. AskTypes' /\ SortTypes'
      BY <1>1, <3>1, AskingStays, SortStays
    <3>5. dials' \subseteq DialRec
      BY <1>1 DEF NavTypes
    <3> QED BY <1>1, <2>4, <2>6, <3>1, <3>2, <3>3, <3>4, <3>5 DEF StillStep
  <2> QED BY <2>5, <2>6
<1> QED BY <1>4, <1>5, <1>6, <1>7, <1>8 DEF Moving

\* What is asked for is of a folder on display, and of names.
LEMMA AskedIsOfFolder ==
  ASSUME IInv, NEW s \in Sides, panes[s].path # NoPath
  PROVE  /\ Here(s) \in scene.paths /\ Here(s) \in Seq(Names) /\ panes[s].source \in Sources
         /\ scene.paths \subseteq Seq(Names)
<1> USE DEF IInv
<1>1. scene \in Scenes
  BY DEF BackTypes
<1> QED BY <1>1, WhatIsShown, FoldersOfScene DEF PaneRec

\* Something displayed is displayed in a folder.
LEMMA DisplayedIsShown ==
  ASSUME IInv, NEW s \in Sides, NEW names, names # {}, Displayed(s, names)
  PROVE  /\ Shown(s) # Nothing /\ panes[s].path # NoPath
         /\ nav[s].loaded.source = panes[s].source /\ nav[s].loaded.path = Here(s)
         /\ sel[s].menu # NoMenu => sel[s].menu.path = Here(s)
<1> USE DEF IInv
<1>1. scene \in Scenes /\ sel[s] \in SelRec
  BY DEF BackTypes, SelTypes
<1>2. Shown(s) # Nothing
  <2>1. CASE names \cap ToSet(Entries(s)) # {}
    BY <1>1, <2>1, RowsOnDisplay
  <2>2. CASE sel[s].menu # NoMenu
    <3>1. sel[s].menu.path \in scene.paths /\ sel[s].menu.path = Shown(s).path
      BY <1>1, <2>2 DEF SelRec, MenuRec, MenuIsShown
    <3> QED BY <1>1, <3>1, FoldersOfScene DEF Nothing
  <2> QED BY <2>1, <2>2 DEF Displayed
<1>3. Shown(s) = nav[s].loaded /\ nav[s].loaded.source = panes[s].source /\ Here(s) = Shown(s).path
  BY <1>1, <1>2, WhatIsShown
<1> QED BY <1>2, <1>3 DEF Unplaced, MenuIsShown

\* A call or a question of the pane keeps what is asked typed.
LEMMA AskedIs ==
  ASSUME IInv, NEW s \in Sides, Asked(s), UserFrame
  PROVE  StillStep
<1> USE DEF IInv
<1>1. UNCHANGED <<scene, disk, wire, panes, navVars, timer, sel, sortVars, dials>>
  BY DEF Asked, Enqueue, DoDelete, DoRename, DoMkdir, Prompts, Asks, NoNav, NoSort, UserFrame,
         backVars
<1>2. AskTypes'
  <2>1. CASE \E names \in SUBSET Names : Displayed(s, names) /\ Enqueue(s, names)
    <3>1. PICK names \in SUBSET Names : Displayed(s, names) /\ Enqueue(s, names)
      BY <2>1
    <3>2. /\ names # {} /\ UNCHANGED askVars
          /\ \E op \in {"upload", "download"} :
               calls' = calls \cup {Call(op, panes[s].source, Shown(s).path, names, 0, s)}
      BY <3>1 DEF Enqueue, NoAsking
    <3>3. /\ Shown(s).path = Here(s) /\ Here(s) \in Seq(Names) /\ panes[s].source \in Sources
      BY <3>1, <3>2, DisplayedIsShown, AskedIsOfFolder DEF Shown
    <3>4. \A op \in {"upload", "download"} :
            LET c == Call(op, panes[s].source, Shown(s).path, names, 0, s) IN
            c \in CallRec /\ c.op = op
      BY <3>3 DEF Call, CallRec
    <3> QED BY <1>1, <3>2, <3>4 DEF AskTypes, askVars
  <2>2. CASE \E names \in SUBSET Names : Displayed(s, names) /\ DoDelete(s, names)
    <3>1. PICK names \in SUBSET Names : Displayed(s, names) /\ DoDelete(s, names)
      BY <2>2
    <3>2. /\ panes[s].path # NoPath /\ Here(s) \in Seq(Names) /\ panes[s].source \in Sources
      BY <3>1, DisplayedIsShown, AskedIsOfFolder DEF DoDelete
    <3>3. CASE /\ calls' = calls \cup {Call("delete", panes[s].source, Here(s), names, 0, s)}
               /\ UNCHANGED askVars
      <4> DEFINE c == Call("delete", panes[s].source, Here(s), names, 0, s)
      <4>1. c \in CallRec /\ c.op = "delete" /\ c.side = s
        BY <3>2 DEF Call, CallRec
      <4> HIDE DEF c
      <4>2. calls' = calls \cup {c}
        BY <3>3 DEF c
      <4> QED BY <1>1, <3>2, <3>3, <4>1, <4>2 DEF AskTypes, askVars
    <3>4. CASE /\ confirm' = [op |-> "delete", side |-> s, source |-> panes[s].source,
                              dir |-> Here(s), names |-> names]
               /\ UNCHANGED <<calls, suppressed, prompt>>
      <4>1. confirm' \in AskRec /\ confirm'.op = "delete" /\ confirm'.side = s
        BY <3>2, <3>4 DEF AskRec
      <4> QED BY <1>1, <3>2, <3>4, <4>1 DEF AskTypes
    <3> QED BY <3>1, <3>3, <3>4 DEF DoDelete, NoAsking
  <2>3. ASSUME NEW op \in {"rename", "mkdir"}, NEW names \in SUBSET Names, Prompts(s, op, names),
               panes[s].path # NoPath
        PROVE  AskTypes'
    <3> DEFINE q == [op |-> op, side |-> s, source |-> panes[s].source, dir |-> Here(s),
                     names |-> names]
    <3>1. q \in AskRec /\ q.op = op /\ q.side = s
      BY <2>3, AskedIsOfFolder DEF AskRec
    <3>2. prompt' = [prompt EXCEPT ![s] = q] /\ UNCHANGED <<calls, confirm>>
      BY <2>3 DEF Prompts
    <3> HIDE DEF q
    <3>3. /\ prompt'[s] = q /\ \A t \in Sides \ {s} : prompt'[t] = prompt[t]
          /\ prompt' \in [Sides -> AskRec \cup {NoAsk}]
      BY <3>1, <3>2 DEF AskTypes
    <3>4. \A t \in Sides : prompt'[t] # NoAsk =>
            /\ prompt'[t].op \in {"rename", "mkdir"} /\ prompt'[t].side = t
            /\ panes'[t].path # NoPath
      BY <1>1, <2>3, <3>1, <3>3 DEF AskTypes
    <3> QED BY <1>1, <3>2, <3>3, <3>4 DEF AskTypes
  <2>4. CASE \E n \in Names : Displayed(s, {n}) /\ DoRename(s, n)
    <3>1. PICK n \in Names : Displayed(s, {n}) /\ DoRename(s, n)
      BY <2>4
    <3>2. panes[s].path # NoPath /\ {n} \in SUBSET Names
      BY <3>1, DisplayedIsShown
    <3> QED BY <2>3, <3>1, <3>2 DEF DoRename
  <2>5. CASE DoMkdir(s)
    <3>1. Prompts(s, "mkdir", {}) /\ panes[s].path # NoPath
      BY <2>5 DEF DoMkdir
    <3> QED BY <2>3, <3>1
  <2> QED BY <2>1, <2>2, <2>4, <2>5 DEF Asked
<1>3. SortTypes' /\ dials' \subseteq DialRec
  BY <1>1, SortStays DEF NavTypes
<1> QED BY <1>1, <1>2, <1>3, QuietIsStill

\* So does an answer to a question.
LEMMA AnsweredIs ==
  ASSUME IInv, NEW s \in Sides, Answered(s), UserFrame
  PROVE  StillStep
<1> USE DEF IInv
<1>1. UNCHANGED <<scene, disk, wire, panes, navVars, timer, sel, sortVars, dials>>
  BY DEF Answered, CloseConfirm, ClosePrompt, AcceptConfirm, AcceptPrompt, Asks, NoNav, NoSort,
         UserFrame, backVars
<1>2. AskTypes'
  <2>1. CASE CloseConfirm(s)
    BY <1>1, <2>1 DEF CloseConfirm, AskTypes
  <2>2. ASSUME prompt' = [prompt EXCEPT ![s] = NoAsk]
        PROVE  /\ prompt' \in [Sides -> AskRec \cup {NoAsk}]
               /\ \A t \in Sides : prompt'[t] # NoAsk => prompt'[t] = prompt[t]
    BY <2>2 DEF AskTypes
  <2>3. CASE ClosePrompt(s)
    BY <1>1, <2>2, <2>3 DEF ClosePrompt, AskTypes
  <2>4. CASE \E silence \in BOOLEAN : AcceptConfirm(s, silence)
    <3> DEFINE c == Call("delete", confirm.source, confirm.dir, confirm.names, 0, s)
    <3>1. /\ confirm # NoAsk /\ confirm.side = s /\ calls' = calls \cup {c} /\ confirm' = NoAsk
          /\ prompt' = prompt
      BY <2>4 DEF AcceptConfirm
    <3>2. confirm \in AskRec /\ panes[s].path # NoPath
      BY <3>1 DEF AskTypes
    <3>3. c \in CallRec /\ c.op = "delete" /\ c.side = s
      BY <3>2 DEF Call, CallRec, AskRec
    <3> HIDE DEF c
    <3> QED BY <1>1, <3>1, <3>2, <3>3 DEF AskTypes
  <2>5. CASE \E new \in Names : AcceptPrompt(s, new)
    <3>1. PICK new \in Names : AcceptPrompt(s, new)
      BY <2>5
    <3> DEFINE q == prompt[s]
               c == Call(q.op, q.source, q.dir, q.names, new, s)
    <3>2. /\ q # NoAsk /\ calls' = calls \cup {c} /\ prompt' = [prompt EXCEPT ![s] = NoAsk]
          /\ confirm' = confirm
      BY <3>1 DEF AcceptPrompt
    <3>3. q \in AskRec /\ q.op \in {"rename", "mkdir"} /\ panes[s].path # NoPath
      BY <3>2 DEF AskTypes
    <3>4. c \in CallRec /\ c.op = q.op /\ c.new = new /\ c.side = s
      BY <3>3 DEF Call, CallRec, AskRec
    <3> HIDE DEF c, q
    <3>5. \A d \in calls' : d \in calls \/ d = c
      BY <3>2
    <3>6. calls' \subseteq CallRec
      BY <3>4, <3>5 DEF AskTypes
    <3>7. \A d \in calls' :
            /\ d.op \in {"rename", "mkdir"} => d.new \in Names
            /\ d.op \in {"delete", "rename", "mkdir"} => panes'[d.side].path # NoPath
      BY <1>1, <3>3, <3>4, <3>5 DEF AskTypes
    <3> QED BY <1>1, <2>2, <3>2, <3>6, <3>7 DEF AskTypes
  <2> QED BY <2>1, <2>3, <2>4, <2>5 DEF Answered
<1>3. SortTypes' /\ dials' \subseteq DialRec
  BY <1>1, SortStays DEF NavTypes
<1> QED BY <1>1, <1>2, <1>3, QuietIsStill

\* So whatever the user does leads a pane somewhere or leaves the panes still.
LEMMA UserIs == IInv /\ User => LeadStep \/ StillStep
<1> SUFFICES ASSUME IInv, User PROVE LeadStep \/ StillStep
  OBVIOUS
<1> USE DEF IInv
<1>1. scene \in Scenes /\ UserFrame /\ UNCHANGED <<scene, disk, wire, timer>>
  BY DEF User, UserFrame, backVars, BackTypes
<1>2. PICK s \in Sides : Press(s)
  BY <1>1, FoldersOfScene DEF User
<1>3. CASE Selecting(s)
  <2>1. PICK chosen \in SelRec : Chooses(s, chosen)
    BY <1>3 DEF Selecting
  <2>2. /\ sel' = [sel EXCEPT ![s] = chosen] /\ UNCHANGED <<panes, navVars, sortVars, askVars>>
        /\ UNCHANGED <<calls, dials>>
    BY <2>1 DEF Chooses, Selects, NoNav, NoSort, NoAsking
  <2>3. SortTypes' /\ AskTypes' /\ dials' \subseteq DialRec
    BY <2>2, SortStays, AskingStays DEF NavTypes
  <2> QED BY <1>1, <2>1, <2>2, <2>3 DEF StillStep, Chooses
<1>4. CASE Moving(s)
  BY <1>1, <1>4, MovingIs
<1>5. CASE Dialling(s)
  <2>1. PICK src \in Sources, kind \in {"switch", "reconnect"} : Awaits(s, src, kind)
    BY <1>5 DEF Dialling, SwitchSource, Reconnect, NavTypes, PaneRec
  <2>2. Dial(s, src, kind) \in DialRec
    BY DEF Dial, DialRec, NavTypes, PaneRec
  <2>3. /\ UNCHANGED <<panes, navVars, sortVars, askVars, calls, sel>>
        /\ dials' = dials \cup {Dial(s, src, kind)}
    BY <2>1 DEF Awaits, NoNav, NoSort, NoAsking
  <2>4. SortTypes' /\ AskTypes' /\ dials' \subseteq DialRec
    BY <2>2, <2>3, SortStays, AskingStays DEF NavTypes
  <2> QED BY <1>1, <2>3, <2>4, QuietIsStill
<1>6. CASE Sorting(s)
  <2>1. PICK k \in SortKey : SortHeader(s, k)
    BY <1>6 DEF Sorting
  <2> DEFINE next == ToggleSort(sort, k)
             at == IndexOf(Rows(Shown(s).names, sel[s].filter, next), CursorName(s))
             chosen == IF at = 0 THEN sel[s] ELSE [sel[s] EXCEPT !.cursor = at, !.anchor = at]
  <2>2. /\ sort' = next /\ mirror' = next
        /\ sel' = IF at = 0 THEN sel ELSE [sel EXCEPT ![s].cursor = at, ![s].anchor = at]
        /\ UNCHANGED <<panes, navVars, askVars, hydration, calls, dials>>
    BY <2>1 DEF SortHeader, NoNav, NoAsking
  <2>3. next \in SortState
    BY DEF ToggleSort, SortTypes, SortState, SortKey
  <2>4. sel[s] \in SelRec /\ sel[s].filter \in SUBSET Names /\ Shown(s).names \in SUBSET Names
    BY <1>1, WhatIsShown DEF SelTypes, SelRec
  <2>5. at \in Nat
    BY <2>3, <2>4, RowsOf
  <2>6. sel' = [sel EXCEPT ![s] = chosen]
    <3> HIDE DEF at
    <3>1. CASE at = 0
      BY <2>2, <3>1 DEF SelTypes
    <3>2. CASE at # 0
      BY <2>2, <3>2 DEF SelTypes
    <3> QED BY <3>1, <3>2
  <2> HIDE DEF at, next
  <2>7. chosen \in SelRec /\ chosen.menu = sel[s].menu /\ chosen.landOn = sel[s].landOn
    BY <2>4, <2>5 DEF SelRec
  <2>8. chosen.menu # NoMenu => chosen.menu.path = Shown(s).path
    BY <2>7 DEF MenuIsShown
  <2>9. SortTypes' /\ AskTypes' /\ dials' \subseteq DialRec
    BY <2>2, <2>3, AskingStays DEF SortTypes, NavTypes
  <2> QED BY <1>1, <2>2, <2>6, <2>7, <2>8, <2>9 DEF StillStep
<1>7. CASE Asked(s)
  BY <1>1, <1>7, AskedIs
<1>8. CASE Answered(s)
  BY <1>1, <1>8, AnsweredIs
<1> QED BY <1>2, <1>3, <1>4, <1>5, <1>6, <1>7, <1>8, PressIs

\* A reload that was scheduled reads the folder again.
LEMMA TimerFiresIs == ASSUME IInv, NEW s \in Sides, TimerFires(s) PROVE LeadStep
<1>1. panes[s].path # NoPath /\ sel[s] \in SelRec
  BY DEF IInv, Unplaced, TimerFires, SelTypes
<1>2. Going(s, panes[s], nav[s], sel[s])
  BY <1>1, AgainGoes
<1>3. Leads(s, panes[s], nav[s], sel[s])
  BY <1>2 DEF TimerFires, ReloadPane, Leads
<1>4. /\ UNCHANGED <<scene, disk, wire, sortVars, askVars>>
      /\ calls' \subseteq calls /\ dials' \subseteq dials
  BY DEF TimerFires, backVars
<1> QED BY <1>3, <1>4, LeadsIsLeadStep

\* An answered call reads the folder again, or only clears marks.
LEMMA ReplyIs == IInv /\ Reply => LeadStep \/ StillStep
<1> SUFFICES ASSUME IInv, Reply PROVE LeadStep \/ StillStep
  OBVIOUS
<1> USE DEF IInv
<1>1. PICK c \in calls :
        LET s == c.side
            clears == c.at = "ok" /\ c.op \in {"delete", "download"}
            chosen == IF clears THEN [sel[s] EXCEPT !.marks = {}] ELSE sel[s]
        IN /\ c.at # "sent"
           /\ calls' = calls \ {c}
           /\ IF c.op \in {"delete", "rename", "mkdir"} THEN ReloadPane(s)
              ELSE UNCHANGED <<panes, navVars>>
           /\ Settle(s, chosen)
           /\ UNCHANGED <<scene, backVars, active, askVars, sortVars, timer, dials, presses>>
  BY DEF Reply
<1> DEFINE s == c.side
           clears == c.at = "ok" /\ c.op \in {"delete", "download"}
           chosen == IF clears THEN [sel[s] EXCEPT !.marks = {}] ELSE sel[s]
<1>2. s \in Sides /\ sel[s] \in SelRec
  BY DEF AskTypes, CallRec, SelTypes
<1>3. /\ chosen \in SelRec /\ chosen.menu = sel[s].menu /\ chosen.landOn = sel[s].landOn
      /\ chosen.filter = sel[s].filter
  BY <1>2 DEF SelRec
<1>4. /\ Settle(s, chosen) /\ UNCHANGED <<scene, disk, wire, askVars, sortVars, timer, dials>>
      /\ calls' \subseteq calls
  BY <1>1 DEF backVars
<1>5. CASE c.op \in {"delete", "rename", "mkdir"}
  <2>1. panes[s].path # NoPath
    BY <1>5 DEF AskTypes
  <2>2. BeginLoad(s, panes[s], nav[s])
    BY <1>1, <1>5 DEF ReloadPane
  <2> HIDE DEF s, chosen
  <2>3. Going(s, panes[s], nav[s], chosen)
    BY <1>2, <1>3, <2>1, AgainGoes
  <2>4. Leads(s, panes[s], nav[s], chosen)
    BY <1>4, <2>2, <2>3 DEF Leads
  <2> QED BY <1>2, <1>4, <2>4, LeadsIsLeadStep
<1>6. CASE c.op \notin {"delete", "rename", "mkdir"}
  <2>1. UNCHANGED <<panes, navVars>>
    BY <1>1, <1>6
  <2> HIDE DEF s, chosen
  <2>2. sel' = [sel EXCEPT ![s] = chosen]
    BY <1>2, <1>4, <2>1, SettleStays
  <2>3. chosen.menu # NoMenu => chosen.menu.path = Shown(s).path
    BY <1>2, <1>3 DEF MenuIsShown
  <2>4. SortTypes' /\ AskTypes' /\ dials' \subseteq DialRec
    BY <1>4, <2>1, SortStays, AskingStays DEF NavTypes
  <2> QED BY <1>2, <1>3, <1>4, <2>1, <2>2, <2>3, <2>4 DEF StillStep
<1> QED BY <1>5, <1>6

\* An answered dial leads the pane to a root, or changes nothing.
LEMMA DialArrivesIs == IInv /\ DialArrives => LeadStep \/ StillStep
<1> SUFFICES ASSUME IInv, DialArrives PROVE LeadStep \/ StillStep
  OBVIOUS
<1> USE DEF IInv
<1>1. PICK d \in dials :
        /\ dials' = dials \ {d}
        /\ \/ SwitchArrives(d) \/ ReconnectArrives(d) \/ BootArrives(d)
           \/ UNCHANGED <<panes, navVars, sel>>
        /\ UNCHANGED <<scene, backVars, calls, active, askVars, sortVars, timer, presses>>
  BY DEF DialArrives
<1>2. /\ scene \in Scenes /\ d.side \in Sides /\ d.source \in Sources
      /\ Root \in scene.paths /\ "local" \in Sources
  BY FoldersOfScene, PaneConstants DEF NavTypes, DialRec, BackTypes
<1>3. /\ UNCHANGED <<scene, disk, wire, sortVars, askVars, timer>>
      /\ calls' \subseteq calls /\ dials' \subseteq dials
  BY <1>1 DEF backVars
<1>4. ASSUME NEW src \in Sources, SetPane(d.side, src, Root, Onward(d.side)),
             Settle(d.side, sel[d.side])
      PROVE  LeadStep
  <2>1. Going(d.side, [source |-> src, path |-> Root], Onward(d.side), sel[d.side])
    BY <1>2, OnwardGoes
  <2>2. Leads(d.side, [source |-> src, path |-> Root], Onward(d.side), sel[d.side])
    BY <1>2, <1>3, <1>4, <2>1, SetPaneLeads
  <2> QED BY <1>2, <1>3, <2>2, LeadsIsLeadStep
<1>5. CASE SwitchArrives(d) \/ BootArrives(d)
  BY <1>2, <1>4, <1>5 DEF SwitchArrives, BootArrives
<1>6. CASE UNCHANGED <<panes, navVars, sel>>
  <2>1. SortTypes' /\ AskTypes' /\ dials' \subseteq DialRec
    BY <1>3, <1>6, SortStays, AskingStays DEF NavTypes
  <2> QED BY <1>3, <1>6, <2>1, QuietIsStill
<1>7. CASE ReconnectArrives(d) /\ ~Superseded(d)
  <2> DEFINE now == [source |-> d.source, path |-> Root]
  <2>1. BeginLoad(d.side, now, Onward(d.side)) /\ Settle(d.side, sel[d.side])
    BY <1>7 DEF ReconnectArrives
  <2>2. Going(d.side, now, Onward(d.side), sel[d.side])
    BY <1>2, OnwardGoes
  <2>3. Leads(d.side, now, Onward(d.side), sel[d.side])
    BY <1>3, <2>1, <2>2 DEF Leads
  <2> QED BY <1>2, <1>3, <2>3, LeadsIsLeadStep
<1>8. CASE ReconnectArrives(d) /\ Superseded(d)
  BY <1>6, <1>8 DEF ReconnectArrives
<1> QED BY <1>1, <1>5, <1>6, <1>7, <1>8

\* Preferences that arrive leave the panes still.
LEMMA PrefsAreStill == IInv /\ (ReadPrefs \/ HydratePrefs) => StillStep
<1> SUFFICES ASSUME IInv, ReadPrefs \/ HydratePrefs PROVE StillStep
  OBVIOUS
<1> USE DEF IInv
<1>1. UNCHANGED <<scene, disk, wire, panes, navVars, timer, sel, askVars, calls, dials>>
  BY DEF ReadPrefs, HydratePrefs, backVars
<1>2. SortTypes'
  BY DEF ReadPrefs, HydratePrefs, AdoptStored, SortTypes
<1>3. AskTypes' /\ dials' \subseteq DialRec
  BY <1>1, AskingStays DEF NavTypes
<1> QED BY <1>1, <1>2, <1>3, QuietIsStill

\* The kinds of step.
LEMMA StepIs ==
  ASSUME IInv, Next
  PROVE  \/ Backend \/ OnFsChanged \/ LeadStep \/ StillStep
         \/ \E s \in Sides : ReadDir(s) \/ Land(s)
BY UserIs, TimerFiresIs, ReplyIs, DialArrivesIs, PrefsAreStill DEF Next, Frontend

\* Every step keeps the inductive invariant.
LEMMA StepKeeps == IInv /\ [Next]_vars => IInv'
<1> SUFFICES ASSUME IInv, [Next]_vars PROVE IInv'
  OBVIOUS
<1>1. CASE Next
  BY <1>1, StepIs, BackendKeeps, OnFsChangedKeeps, LeadKeeps, StillKeeps, ReadDirKeeps, LandKeeps
<1>2. CASE vars' = vars
  <2>1. /\ UNCHANGED <<scene, disk, wire, panes, navVars, timer, sel, askVars, calls, dials>>
        /\ UNCHANGED sortVars
    BY <1>2 DEF vars, backVars
  <2>2. SortTypes' /\ AskTypes' /\ dials' \subseteq DialRec
    BY <2>1, SortStays, AskingStays DEF IInv, NavTypes
  <2> QED BY <2>1, <2>2, QuietIsStill, StillKeeps
<1> QED BY <1>1, <1>2

-----------------------------------------------------------------------------
(* The theorems.                                                           *)

\* A sequence of one element.
LEMMA Singletons == ASSUME NEW S, NEW x \in S PROVE <<x>> \in Seq(S) /\ Len(<<x>>) = 1
OBVIOUS

\* Both ways to begin satisfy it: at launch, and with both panes at rest.
LEMMA InitHolds == Init => IInv
<1> SUFFICES ASSUME Init PROVE IInv
  OBVIOUS
<1>1. /\ scene \in Scenes /\ disk = scene.disk /\ wire = <<>> /\ calls = {} /\ confirm = NoAsk
      /\ prompt = [s \in Sides |-> NoAsk] /\ loads = [s \in Sides |-> {}]
      /\ missed = [s \in Sides |-> FALSE] /\ timer = [s \in Sides |-> FALSE]
      /\ sort = DefaultSort /\ mirror = DefaultSort /\ sel = [s \in Sides |-> Fresh]
      /\ Launch \/ AtRest
  BY DEF Init
<1>2. /\ Root \in scene.paths /\ scene.paths \subseteq Seq(Names) /\ Root # NoPath
      /\ NoPath \notin scene.paths /\ scene.at \in [Sides -> Sources] /\ "local" \in Sources
  BY <1>1, FoldersOfScene, SceneAssumption, PaneConstants
<1>3. BackTypes
  BY <1>1, SceneAssumption DEF BackTypes
<1>4. Fresh \in SelRec /\ Fresh.menu = NoMenu
  BY DEF Fresh, SelRec, MenuRec, NoFilter
<1>5. SelTypes /\ MenuIsShown
  BY <1>1, <1>4 DEF SelTypes, MenuIsShown
<1>6. AskTypes /\ Newest
  BY <1>1 DEF AskTypes, Newest
<1>7. DefaultSort \in SortState /\ [key |-> "size", desc |-> TRUE] \in SortState
  BY DEF DefaultSort, SortState, SortKey
<1>8. CASE Launch
  <2>0. hydration \in [at : {"reading", "read", "done"}, stored : SortState]
    <3>1. PICK stored \in SortState : hydration = [at |-> "reading", stored |-> stored]
      BY <1>7, <1>8 DEF Launch
    <3> QED BY <3>1
  <2>1. /\ panes = [s \in Sides |-> [source |-> "local", path |-> NoPath]]
        /\ nav = [s \in Sides |-> [loaded |-> Nothing, failure |-> "none", nonce |-> 0,
                                  stack |-> <<>>, idx |-> 0, travelling |-> FALSE,
                                  leaving |-> NoPath]]
        /\ cache = [k \in [src : Sources, path : scene.paths] |-> Nothing]
        /\ dials = {Dial(s, "local", "boot") : s \in Sides}
    BY <1>8 DEF Launch
  <2>2. \A s \in Sides : /\ panes[s] \in PaneRec /\ nav[s] \in NavRec
                         /\ nav[s].idx <= Len(nav[s].stack)
                         /\ panes[s].path = NoPath /\ panes[s].source = "local"
                         /\ nav[s].loaded = Nothing /\ nav[s].failure = "none"
                         /\ nav[s].leaving = NoPath
    <3>1. <<>> \in Seq(scene.paths) /\ Len(<<>>) = 0
      OBVIOUS
    <3> QED BY <1>2, <2>1, <3>1 DEF PaneRec, NavRec
  <2>3. dials \subseteq DialRec
    BY <1>2, <2>1, <2>2 DEF Dial, DialRec
  <2>4. NavTypes
    BY <1>1, <2>1, <2>2, <2>3 DEF NavTypes
  <2>5. Unplaced /\ Followed /\ Leaving
    BY <1>1, <2>2 DEF Unplaced, Followed, Leaving
  <2> QED BY <1>1, <1>3, <1>5, <1>6, <1>7, <2>0, <2>4, <2>5 DEF IInv, SortTypes
<1>9. CASE AtRest
  <2> DEFINE Top(src) == [source |-> src, path |-> Root, names |-> Children(src, Root)]
  <2>1. /\ panes = [s \in Sides |-> [source |-> scene.at[s], path |-> Root]]
        /\ nav = [s \in Sides |-> [loaded |-> Top(scene.at[s]), failure |-> "none", nonce |-> 0,
                                  stack |-> <<Root>>, idx |-> 1, travelling |-> FALSE,
                                  leaving |-> NoPath]]
        /\ cache = [k \in [src : Sources, path : scene.paths] |->
                      IF k.path = Root /\ k.src \in {scene.at[s] : s \in Sides} THEN Top(k.src)
                      ELSE Nothing]
        /\ dials = {} /\ hydration \in [at : {"reading", "read", "done"}, stored : SortState]
    BY <1>7, <1>9 DEF AtRest
  <2>2. \A src \in Sources : /\ Top(src) \in ListingRec /\ Top(src).source = src
                             /\ Top(src).path = Root /\ Top(src).names = Children(src, Root)
    BY <1>2 DEF ListingRec, Children
  <2> HIDE DEF Top
  <2>3. \A s \in Sides : /\ panes[s] \in PaneRec /\ nav[s] \in NavRec
                         /\ nav[s].idx <= Len(nav[s].stack)
                         /\ panes[s].path = Root /\ panes[s].source = scene.at[s]
                         /\ scene.at[s] \in Sources
                         /\ nav[s].loaded = Top(scene.at[s]) /\ nav[s].leaving = NoPath
    <3>1. <<Root>> \in Seq(scene.paths) /\ Len(<<Root>>) = 1
      BY <1>2, Singletons
    <3>2. ASSUME NEW s \in Sides
          PROVE  /\ nav[s] \in NavRec /\ nav[s].stack = <<Root>> /\ nav[s].idx = 1
                 /\ nav[s].loaded = Top(scene.at[s]) /\ nav[s].leaving = NoPath
      <4>1. scene.at[s] \in Sources /\ Top(scene.at[s]) \in ListingRec
        BY <1>2, <2>2
      <4>2. nav[s] = [loaded |-> Top(scene.at[s]), failure |-> "none", nonce |-> 0,
                      stack |-> <<Root>>, idx |-> 1, travelling |-> FALSE, leaving |-> NoPath]
        BY <2>1
      <4>3. [loaded |-> Top(scene.at[s]), failure |-> "none", nonce |-> 0,
                      stack |-> <<Root>>, idx |-> 1, travelling |-> FALSE, leaving |-> NoPath]
            \in NavRec
        BY <3>1, <4>1 DEF NavRec
      <4> QED BY <4>2, <4>3
    <3>3. \A s \in Sides : /\ panes[s] \in PaneRec /\ panes[s].path = Root
                           /\ panes[s].source = scene.at[s] /\ scene.at[s] \in Sources
      BY <1>2, <2>1 DEF PaneRec
    <3>4. \A s \in Sides : nav[s].idx <= Len(nav[s].stack)
      <4>1. 1 <= Len(<<Root>>)
        BY <3>1
      <4> DEFINE top == <<Root>>
      <4> HIDE DEF top
      <4>2. \A s \in Sides : nav[s].stack = top /\ nav[s].idx = 1
        BY <3>2 DEF top
      <4>3. 1 <= Len(top)
        BY <4>1 DEF top
      <4> QED BY <4>2, <4>3
    <3> QED BY <3>2, <3>3, <3>4
  <2>4. /\ cache \in [[src : Sources, path : scene.paths] -> ListingRec \cup {Nothing}]
        /\ \A src \in Sources : \A p \in scene.paths :
             LET listing == cache[[src |-> src, path |-> p]] IN
             listing # Nothing => listing.source = src /\ listing.path = p
    BY <1>2, <2>1, <2>2
  <2>5. NavTypes
    BY <1>1, <2>1, <2>3, <2>4 DEF NavTypes
  <2>6. Unplaced /\ Leaving
    BY <1>2, <2>3 DEF Unplaced, Leaving
  <2>7. Followed
    <3>1. ASSUME NEW s \in Sides PROVE Follows(s)
      <4>1. /\ Shown(s) = Top(scene.at[s]) /\ Shown(s).path = panes[s].path
            /\ Shown(s).names = Children(panes[s].source, panes[s].path)
        BY <2>2, <2>3 DEF Shown
      <4> QED BY <1>1, <4>1 DEF Follows, IsCurrent
    <3> QED BY <3>1 DEF Followed
  <2> QED BY <1>1, <1>3, <1>5, <1>6, <1>7, <2>1, <2>5, <2>6, <2>7 DEF IInv, SortTypes
<1> QED BY <1>1, <1>8, <1>9

\* The inductive invariant holds throughout.
THEOREM Invariance == Spec => []IInv
BY InitHolds, StepKeeps, PTL DEF Spec

\* The inductive invariant implies the types of the model.
LEMMA TypesFollow == IInv => TypeOK
<1> SUFFICES ASSUME IInv PROVE TypeOK
  OBVIOUS
<1> USE DEF IInv
<1>1. /\ scene \in Scenes /\ scene.paths \subseteq Seq(Names) /\ NoPath \in Seq(Nat)
      /\ Names \subseteq Nat
  BY FoldersOfScene, NameAssumption DEF BackTypes, NoPath
<1>2. Seq(Names) \subseteq Seq(Nat)
  <2>1. \A p \in Seq(Names) : p \in Seq(Nat)
    BY <1>1, SeqMonotonic
  <2> QED BY <2>1
<1>3. NoAsk \in Ask /\ AskRec \subseteq Ask
  <2>1. NoAsk \in Ask
    BY <1>1, PaneConstants DEF NoAsk, Ask, Sides
  <2>2. \A q \in AskRec : q \in Ask
    BY <1>2 DEF AskRec, Ask
  <2> QED BY <2>1, <2>2
<1>4. ASSUME NEW s \in Sides
      PROVE  /\ panes[s].source \in Sources /\ panes[s].path \in Seq(Nat)
             /\ nav[s].loaded \in Listing /\ nav[s].failure \in Sources \cup {"none"}
             /\ nav[s].idx \in 0..Len(nav[s].stack) /\ nav[s].nonce \in Nat
             /\ \A l \in loads[s] : l.nonce \in 1..nav[s].nonce /\ l.source \in Sources
  <2>1. panes[s] \in PaneRec /\ nav[s] \in NavRec /\ nav[s].idx <= Len(nav[s].stack)
    BY DEF NavTypes
  <2>2. panes[s].source \in Sources /\ panes[s].path \in Seq(Nat)
    BY <1>1, <1>2, <2>1 DEF PaneRec
  <2>3. nav[s].loaded \in Listing
    <3>1. Nothing \in Listing
      BY <1>1 DEF Nothing, Listing
    <3>2. \A l \in ListingRec : l \in Listing
      BY <1>1, <1>2 DEF ListingRec, Listing
    <3> QED BY <2>1, <3>1, <3>2 DEF NavRec
  <2>4. /\ nav[s].failure \in Sources \cup {"none"} /\ nav[s].nonce \in Nat /\ nav[s].idx \in Nat
        /\ Len(nav[s].stack) \in Nat
    BY <2>1, LenProperties DEF NavRec
  <2>5. \A l \in loads[s] : l.nonce \in 1..nav[s].nonce /\ l.source \in Sources
    <3>1. \A l \in loads[s] : /\ l.nonce \in Nat \ {0} /\ l.source \in Sources
                              /\ l.nonce <= nav[s].nonce
      BY DEF NavTypes, LoadRec, Newest
    <3> QED BY <2>4, <3>1
  <2> QED BY <2>1, <2>2, <2>3, <2>4, <2>5
<1>5. \A s \in Sides : /\ sel[s].cursor \in Nat \ {0} /\ sel[s].anchor \in Nat \ {0}
                       /\ sel[s].marks \subseteq Names /\ sel[s].filter \subseteq Names
                       /\ prompt[s] \in Ask
  BY <1>3 DEF SelTypes, SelRec, AskTypes
<1> QED BY <1>3, <1>4, <1>5 DEF TypeOK, AskTypes, SortTypes, BackTypes, NavTypes

\* The panes' state keeps its types, and no cursor is left of the first row.
THEOREM TypeCorrect == Spec => []TypeOK
BY Invariance, TypesFollow, PTL

\* When nothing is under way, a pane shows its folder as it is: whatever was
\* announced, overtaken or failed meanwhile (FilePane.tsx:427-459,
\* usePaneNav.ts:66-106).
THEOREM ListingsCatchUp == Spec => []ListingCatchesUp
<1>1. IInv => ListingCatchesUp
  <2> SUFFICES ASSUME IInv, Quiet, NEW s \in Sides, ~missed[s], ~Failed(s),
                      panes[s].path \in disk[panes[s].source]
               PROVE  Shown(s).path = panes[s].path
                        /\ Shown(s).names = Children(panes[s].source, panes[s].path)
    BY DEF ListingCatchesUp
  <2>1. panes[s].path # NoPath
    BY FoldersOfScene DEF IInv, BackTypes, NavTypes, PaneRec
  <2>2. Follows(s) /\ DOMAIN wire = {} /\ loads[s] = {} /\ ~timer[s]
    BY <2>1 DEF IInv, Followed, Quiet
  <2> QED BY <2>2 DEF Follows, IsCurrent
<1> QED BY Invariance, <1>1, PTL

-----------------------------------------------------------------------------
(* The stored sort.                                                        *)

\* Only a heading, and the stored preferences when they arrive, change the sort.
LEMMA SortedBy ==
  ASSUME IInv, Next
  PROVE  UNCHANGED sortVars \/ ReadPrefs \/ HydratePrefs \/ \E s \in Sides : Sorting(s)
<1>1. CASE Backend
  BY <1>1 DEF Backend, TransferLands, ExecCall
<1>2. CASE Frontend
  <2>1. CASE \E s \in Sides : ReadDir(s) \/ Land(s) \/ TimerFires(s)
    BY <2>1 DEF ReadDir, Land, TimerFires
  <2>2. CASE OnFsChanged \/ Reply \/ DialArrives
    BY <2>2 DEF OnFsChanged, Reply, DialArrives
  <2> QED BY <1>2, <2>1, <2>2 DEF Frontend
<1>3. CASE User
  <2>1. PICK s \in Sides : Press(s)
    BY <1>3, FoldersOfScene DEF User, IInv, BackTypes
  <2>2. CASE Selecting(s)
    BY <2>2 DEF Selecting, Chooses, Selects, NoSort
  <2>3. CASE Moving(s)
    BY <2>3 DEF Moving, Navigate, NavigateTyped, GoUp, Reload, Travel, Goes, NoSort
  <2>4. CASE Dialling(s)
    BY <2>4 DEF Dialling, SwitchSource, Reconnect, Awaits, NoSort
  <2>5. CASE Asked(s)
    BY <2>5 DEF Asked, Enqueue, DoDelete, DoRename, DoMkdir, Prompts, Asks, NoSort
  <2>6. CASE Answered(s)
    BY <2>6 DEF Answered, CloseConfirm, ClosePrompt, AcceptConfirm, AcceptPrompt, Asks, NoSort
  <2> QED BY <2>1, <2>2, <2>3, <2>4, <2>5, <2>6, PressIs
<1> QED BY <1>1, <1>2, <1>3 DEF Next

\* A sort the user chose before the stored preferences arrived is kept and
\* written back, however slowly they arrive (usePaneSort.ts:40-58,
\* prefs.ts:99-127).
THEOREM PrefIsKept == Spec => []PrefIsTheUsers
<1>1. Init => PrefIsTheUsers
  BY DEF Init, PrefIsTheUsers
<1>2. PrefIsTheUsers /\ IInv /\ [Next]_vars => PrefIsTheUsers'
  <2> SUFFICES ASSUME PrefIsTheUsers, IInv, [Next]_vars, touched' PROVE mirror' = sort'
    BY DEF PrefIsTheUsers
  <2>1. CASE UNCHANGED sortVars
    BY <2>1 DEF PrefIsTheUsers, sortVars
  <2>2. CASE ReadPrefs
    BY <2>2 DEF PrefIsTheUsers, ReadPrefs
  <2>3. CASE HydratePrefs
    <3>1. touched' = touched
      BY <2>3 DEF HydratePrefs
    <3>2. touched
      BY <3>1
    <3> QED BY <2>3, <3>2 DEF PrefIsTheUsers, HydratePrefs, AdoptStored
  <2>4. CASE \E s \in Sides : Sorting(s)
    BY <2>4 DEF Sorting, SortHeader
  <2>5. CASE vars' = vars
    BY <2>1, <2>5 DEF vars
  <2> QED BY <2>1, <2>2, <2>3, <2>4, <2>5, SortedBy
<1> QED BY <1>1, <1>2, Invariance, PTL DEF Spec

-----------------------------------------------------------------------------
(* What an operation names.                                                *)

\* Nothing is asked for and no question answered but by the user.
LEMMA AskedBy ==
  ASSUME IInv, Next
  PROVE  \/ UNCHANGED askVars /\ \A c \in calls' \ calls : c.at # "sent"
         \/ \E s \in Sides : Asked(s) \/ Answered(s)
<1>1. CASE Backend
  <2>1. CASE ExecCall
    <3>1. UNCHANGED askVars
      BY <2>1 DEF ExecCall
    <3>2. PICK c \in calls :
            DeleteEntries(c) \/ RenameEntry(c) \/ MakeDir(c) \/ EnqueueFiles(c) \/ NoSession(c)
      BY <2>1 DEF ExecCall
    <3>3. \E at \in {"ok", "failed"} : calls' = (calls \ {c}) \cup {[c EXCEPT !.at = at]}
      BY <3>2 DEF DeleteEntries, RenameEntry, MakeDir, EnqueueFiles, NoSession, Done
    <3>4. c \in CallRec
      BY DEF IInv, AskTypes
    <3>5. \A at \in {"ok", "failed"} : [c EXCEPT !.at = at].at = at
      BY <3>4 DEF CallRec
    <3> QED BY <3>1, <3>3, <3>5
  <2> QED BY <1>1, <2>1 DEF Backend, TransferLands
<1>2. CASE Frontend
  <2>1. CASE \E s \in Sides : ReadDir(s) \/ Land(s) \/ TimerFires(s)
    BY <2>1 DEF ReadDir, Land, TimerFires
  <2>2. CASE OnFsChanged \/ Reply \/ DialArrives \/ ReadPrefs \/ HydratePrefs
    BY <2>2 DEF OnFsChanged, Reply, DialArrives, ReadPrefs, HydratePrefs
  <2> QED BY <1>2, <2>1, <2>2 DEF Frontend
<1>3. CASE User
  <2>1. PICK s \in Sides : Press(s)
    BY <1>3, FoldersOfScene DEF User, IInv, BackTypes
  <2>2. CASE Selecting(s)
    BY <2>2 DEF Selecting, Chooses, Selects, NoAsking
  <2>3. CASE Moving(s)
    BY <2>3 DEF Moving, Navigate, NavigateTyped, GoUp, Reload, Travel, Goes, NoAsking
  <2>4. CASE Dialling(s) \/ Sorting(s)
    BY <2>4 DEF Dialling, SwitchSource, Reconnect, Awaits, Sorting, SortHeader, NoAsking
  <2> QED BY <2>1, <2>2, <2>3, <2>4, PressIs
<1> QED BY <1>1, <1>2, <1>3 DEF Next

\* Rows of the listing a pane holds, and how they came to be named.
Named(s, src, dir, names) == OnDisplay(s, src, dir, names) \/ UnderError(s, src, dir, names)

\* What the panes' operations act on is listed in the folder the pane holds.
LEMMA DisplayedIsNamed ==
  ASSUME IInv, NEW s \in Sides, NEW names, names # {}, Displayed(s, names)
  PROVE  Named(s, panes[s].source, Here(s), names) /\ Shown(s).path = Here(s)
<1>1. /\ Shown(s) # Nothing
      /\ nav[s].loaded.source = panes[s].source /\ nav[s].loaded.path = Here(s)
      /\ sel[s].menu # NoMenu => sel[s].menu.path = Here(s)
  BY DisplayedIsShown
<1>2. Holds(s, panes[s].source, Here(s), names)
  BY <1>1 DEF Holds, Displayed
<1> QED BY <1>1, <1>2 DEF Named, OnDisplay, UnderError, Displayed, Here

\* A delete, a rename and a transfer name rows of the listing the pane holds
\* at the source it is on: rows on display or, while an error of that source
\* covers the list, those picked under it; and a question keeps its subject
\* (FilePane.tsx:164-168, :489-502, :600-667, :1090, usePaneNav.ts:40-50).
THEOREM OperationsNameListedRows == Spec => ActsOnListedRows
<1> DEFINE SameAs(c, q) ==
             <<c.op, c.source, c.dir, c.names>> = <<q.op, q.source, q.dir, q.names>>
           A == /\ confirm' \notin {confirm, NoAsk} =>
                     Named(confirm'.side, confirm'.source, confirm'.dir, confirm'.names)
                /\ \A s \in Sides :
                     prompt'[s] \notin {prompt[s], NoAsk} /\ prompt'[s].op = "rename" =>
                       Named(s, prompt'[s].source, prompt'[s].dir, prompt'[s].names)
                /\ \A c \in calls' \ calls : c.at = "sent" =>
                     \/ SameAs(c, confirm) \/ SameAs(c, prompt[c.side])
                     \/ /\ c.op = "delete" => suppressed
                        /\ Named(c.side, c.source, c.dir, c.names)
<1>1. ASSUME IInv, UNCHANGED askVars, \A c \in calls' \ calls : c.at # "sent" PROVE A
  BY <1>1 DEF askVars
<1>2. ASSUME IInv, NEW s \in Sides, Asked(s) PROVE A
  <2>1. CASE \E names \in SUBSET Names : Displayed(s, names) /\ Enqueue(s, names)
    <3>1. PICK names \in SUBSET Names : Displayed(s, names) /\ Enqueue(s, names)
      BY <2>1
    <3>2. names # {} /\ UNCHANGED askVars
          /\ \E op \in {"upload", "download"} :
               calls' = calls \cup {Call(op, panes[s].source, Shown(s).path, names, 0, s)}
      BY <3>1 DEF Enqueue, NoAsking
    <3>3. Named(s, panes[s].source, Shown(s).path, names)
      BY <1>2, <3>1, <3>2, DisplayedIsNamed
    <3>4. \A c \in calls' \ calls : /\ c.op # "delete"
                                    /\ Named(c.side, c.source, c.dir, c.names)
      BY <3>2, <3>3 DEF Call
    <3> QED BY <3>2, <3>4 DEF askVars
  <2>2. CASE \E names \in SUBSET Names : Displayed(s, names) /\ DoDelete(s, names)
    <3>1. PICK names \in SUBSET Names : Displayed(s, names) /\ DoDelete(s, names)
      BY <2>2
    <3>2. Named(s, panes[s].source, Here(s), names)
      BY <1>2, <3>1, DisplayedIsNamed DEF DoDelete
    <3>3. CASE suppressed
      <4>1. /\ calls' = calls \cup {Call("delete", panes[s].source, Here(s), names, 0, s)}
            /\ UNCHANGED askVars
        BY <3>1, <3>3 DEF DoDelete, NoAsking
      <4>2. \A c \in calls' \ calls : Named(c.side, c.source, c.dir, c.names)
        BY <3>2, <4>1 DEF Call
      <4> QED BY <3>3, <4>1, <4>2 DEF askVars
    <3>4. CASE ~suppressed
      BY <3>1, <3>2, <3>4 DEF DoDelete
    <3> QED BY <3>3, <3>4
  <2>3. ASSUME NEW op \in {"rename", "mkdir"}, NEW names, Prompts(s, op, names),
               op = "rename" => Named(s, panes[s].source, Here(s), names)
        PROVE  A
    <3> DEFINE q == [op |-> op, side |-> s, source |-> panes[s].source, dir |-> Here(s),
                     names |-> names]
    <3>1. prompt' = [prompt EXCEPT ![s] = q] /\ UNCHANGED <<calls, confirm>>
      BY <2>3 DEF Prompts
    <3>2. \A t \in Sides : prompt'[t] # prompt[t] => t = s /\ prompt'[t] = q
      BY <1>2, <3>1 DEF IInv, AskTypes
    <3>3. q.op = "rename" => Named(s, q.source, q.dir, q.names)
      BY <2>3
    <3> HIDE DEF q
    <3> QED BY <3>1, <3>2, <3>3
  <2>4. CASE \E n \in Names : Displayed(s, {n}) /\ DoRename(s, n)
    <3>1. PICK n \in Names : Displayed(s, {n}) /\ DoRename(s, n)
      BY <2>4
    <3>2. Named(s, panes[s].source, Here(s), {n})
      BY <1>2, <3>1, DisplayedIsNamed
    <3>3. Prompts(s, "rename", {n})
      BY <3>1 DEF DoRename
    <3> HIDE DEF A
    <3> QED BY <2>3, <3>2, <3>3
  <2>5. CASE DoMkdir(s)
    <3>1. Prompts(s, "mkdir", {})
      BY <2>5 DEF DoMkdir
    <3> HIDE DEF A
    <3> QED BY <2>3, <3>1
  <2> HIDE DEF A
  <2> QED BY <1>2, <2>1, <2>2, <2>4, <2>5 DEF Asked
<1>3. ASSUME IInv, NEW s \in Sides, Answered(s) PROVE A
  <2>1. /\ confirm' \in {confirm, NoAsk}
        /\ prompt' \in {prompt, [prompt EXCEPT ![s] = NoAsk]}
    BY <1>3 DEF Answered, CloseConfirm, ClosePrompt, AcceptConfirm, AcceptPrompt
  <2>2. \A t \in Sides : prompt'[t] \in {prompt[t], NoAsk}
    BY <1>3, <2>1 DEF IInv, AskTypes
  <2>3. \A c \in calls' \ calls : SameAs(c, confirm) \/ SameAs(c, prompt[c.side])
    <3>1. CASE CloseConfirm(s) \/ ClosePrompt(s)
      BY <3>1 DEF CloseConfirm, ClosePrompt
    <3>2. CASE \E silence \in BOOLEAN : AcceptConfirm(s, silence)
      <4>1. /\ calls' = calls \cup
                 {Call("delete", confirm.source, confirm.dir, confirm.names, 0, s)}
            /\ confirm.op = "delete"
        BY <1>3, <3>2 DEF AcceptConfirm, IInv, AskTypes
      <4> QED BY <4>1 DEF Call
    <3>3. CASE \E new \in Names : AcceptPrompt(s, new)
      <4>1. PICK new \in Names : AcceptPrompt(s, new)
        BY <3>3
      <4>2. calls' = calls \cup {Call(prompt[s].op, prompt[s].source, prompt[s].dir,
                                      prompt[s].names, new, s)}
        BY <4>1 DEF AcceptPrompt
      <4> QED BY <4>2 DEF Call
    <3> QED BY <1>3, <3>1, <3>2, <3>3 DEF Answered
  <2> HIDE DEF SameAs
  <2> QED BY <2>1, <2>2, <2>3
<1>4. IInv /\ [Next]_vars => [A]_vars
  <2> HIDE DEF A
  <2> QED BY <1>1, <1>2, <1>3, AskedBy
<1> QED BY Invariance, <1>4, PTL DEF Spec, ActsOnListedRows, Named

-----------------------------------------------------------------------------
(* Going up.                                                               *)

\* A selection that starts over looking for a row all see puts the cursor on it.
LEMMA CursorLands ==
  ASSUME scene \in Scenes, SortTypes, sort' = sort, NEW s \in Sides, NEW chosen \in SelRec,
         chosen.filter = NoFilter, Shown(s)'.names \in SUBSET Names,
         chosen.landOn \in Shown(s)'.names,
         sel'[s] = ResetSelection(Shown(s)'.names, chosen)
  PROVE  CursorName(s)' = chosen.landOn
<1> DEFINE names == Shown(s)'.names
           rows == Rows(names, NoFilter, sort)
<1>1. chosen.filter \in SUBSET Names /\ chosen.landOn \in names \cap chosen.filter
  BY DEF NoFilter
<1>2. /\ sel'[s].filter = NoFilter
      /\ sel'[s].cursor \in DOMAIN rows /\ rows[sel'[s].cursor] = chosen.landOn
  BY <1>1, ResetLands
<1>3. Entries(s)' = rows
  BY <1>2 DEF Entries
<1> QED BY <1>2, <1>3 DEF CursorName

\* "Going up lands the cursor on the folder you just left" (ux-spec.md:107):
\* the invariant Leaving carries the folder to land on from the key to the
\* listing that answers it.
THEOREM UpLands == Spec => UpLandsOnFolderLeft
<1> DEFINE LeftBy(s) == IF nav'[s].leaving # NoPath THEN nav'[s].leaving ELSE nav[s].leaving
           Arrives(s) == LeftBy(s) # NoPath /\ Shown(s)'.path # Shown(s).path
                         /\ panes'[s].source = panes[s].source
                         /\ Shown(s)'.path = Parent(LeftBy(s))
                         /\ BaseName(LeftBy(s)) \in Shown(s)'.names
           Later(s) == panes'[s] = panes[s]
           A(s) == Arrives(s) /\ (Later(s) => sel[s].filter = NoFilter)
                     => CursorName(s)' = BaseName(LeftBy(s))
           B == \A s \in Sides :
                  LET left == IF nav'[s].leaving # NoPath THEN nav'[s].leaving ELSE nav[s].leaving
                      arrives == left # NoPath /\ Shown(s).path' # Shown(s).path
                                 /\ panes'[s].source = panes[s].source
                                 /\ Shown(s).path' = Parent(left)
                                 /\ BaseName(left) \in Shown(s).names'
                      later == panes'[s] = panes[s]
                  IN arrives /\ (later => sel[s].filter = NoFilter)
                       => CursorName(s)' = BaseName(left)
<1>1. ASSUME NEW s \in Sides, panes'[s] = panes[s], nav'[s] = nav[s] PROVE A(s)
  <2>1. Shown(s)' = Shown(s)
    BY <1>1, ShownStays
  <2> QED BY <2>1
\* The folder left is on show until the parent is.
<1>2. ASSUME IInv, NEW s \in Sides, nav[s].leaving # NoPath, Parent(nav[s].leaving) # Shown(s).path
      PROVE  /\ panes[s].path = Parent(nav[s].leaving)
             /\ sel[s].landOn = BaseName(nav[s].leaving)
  BY <1>2 DEF IInv, Leaving, Shown
\* A listing comes on show, and the selection looks for the folder left.
<1>3. ASSUME IInv, NEW s \in Sides, NEW chosen \in SelRec, Settle(s, chosen), sort' = sort,
             nav'[s].loaded \in ListingRec \cup {Nothing}, chosen.menu = sel[s].menu,
             Arrives(s) => chosen.filter = NoFilter /\ chosen.landOn = BaseName(LeftBy(s)),
             Arrives(s)
      PROVE  CursorName(s)' = BaseName(LeftBy(s))
  <2>1. scene \in Scenes /\ NavTypes /\ SelTypes /\ SortTypes /\ MenuIsShown
    BY <1>3 DEF IInv, BackTypes
  <2>2. sel'[s] = ResetSelection(Shown(s)'.names, chosen)
    <3>1. panes'[s].source = panes[s].source /\ Shown(s)'.path # Shown(s).path
      BY <1>3
    <3> QED BY <1>3, <2>1, <3>1, SettleSelects
  <2>3. Shown(s)'.names \in SUBSET Names
    BY <1>3 DEF Shown, ListingRec, Nothing
  <2>4. chosen.filter = NoFilter /\ chosen.landOn = BaseName(LeftBy(s))
        /\ chosen.landOn \in Shown(s)'.names
    BY <1>3
  <2> QED BY <1>3, <2>1, <2>2, <2>3, <2>4, CursorLands
<1>4. ASSUME IInv, NEW s \in Sides, Land(s) PROVE A(s)
  <2> SUFFICES ASSUME Arrives(s), Later(s) => sel[s].filter = NoFilter
               PROVE  CursorName(s)' = BaseName(LeftBy(s))
    OBVIOUS
  <2>1. /\ panes' = panes /\ sort' = sort /\ Settle(s, sel[s])
        /\ \/ nav'[s].loaded = nav[s].loaded
           \/ /\ nav'[s].leaving = NoPath
              /\ nav'[s].loaded.source = panes[s].source /\ nav'[s].loaded.path = panes[s].path
    <3>1. panes' = panes /\ sort' = sort /\ Settle(s, sel[s])
      BY <1>4, LandIs
    <3>2. PICK l \in loads[s] :
            \/ nav'[s].loaded = nav[s].loaded
            \/ /\ nav'[s].leaving = NoPath
               /\ nav'[s].loaded = [source |-> panes[s].source, path |-> panes[s].path,
                                    names |-> l.names]
      BY <1>4, LandIs
    <3> QED BY <3>1, <3>2
  <2>2. nav'[s].loaded \in ListingRec \cup {Nothing}
    <3>1. nav' \in [Sides -> NavRec]
      BY <1>4, LandIs
    <3> QED BY <3>1 DEF NavRec
  <2>3. nav'[s].loaded # nav[s].loaded
    BY <2>1 DEF Shown
  <2>4. LeftBy(s) = nav[s].leaving /\ sel[s].filter = NoFilter
    BY <2>1, <2>3
  <2>5. sel[s].landOn = BaseName(LeftBy(s))
    BY <1>2, <1>4, <2>4
  <2>6. sel[s] \in SelRec
    BY <1>4 DEF IInv, SelTypes
  <2> HIDE DEF Arrives, LeftBy
  <2> QED BY <1>3, <1>4, <2>1, <2>2, <2>4, <2>5, <2>6
<1>5. ASSUME IInv, NEW s \in Sides, NEW now, NEW kept, NEW chosen, Leads(s, now, kept, chosen),
             scene' = scene, sort' = sort
      PROVE  A(s)
  <2> SUFFICES ASSUME Arrives(s), Later(s) => sel[s].filter = NoFilter
               PROVE  CursorName(s)' = BaseName(LeftBy(s))
    OBVIOUS
  <2>1. /\ scene \in Scenes /\ NavTypes /\ Newest
        /\ Settle(s, chosen) /\ Going(s, now, kept, chosen) /\ kept.loaded = nav[s].loaded
        /\ now \in [source : Sources, path : scene.paths] /\ panes[s] \in PaneRec
        /\ chosen \in SelRec /\ chosen.menu = sel[s].menu
    BY <1>5 DEF IInv, BackTypes, Leads, Going, NavTypes
  <2>2. BeginLoad(s, now, kept)
    <3> SUFFICES ASSUME panes' = panes, nav' = [nav EXCEPT ![s] = kept] PROVE FALSE
      BY <1>5 DEF Leads
    <3>1. nav'[s].loaded = nav[s].loaded
      BY <2>1 DEF NavTypes
    <3> QED BY <3>1 DEF Shown
  <2>3. /\ panes'[s] = now /\ nav'[s].leaving = kept.leaving /\ nav' \in [Sides -> NavRec]
        /\ \/ nav'[s].loaded = nav[s].loaded
           \/ nav'[s].loaded \in ListingRec /\ nav'[s].loaded.source = now.source
              /\ nav'[s].loaded.path = now.path
    BY <1>5, <2>1, <2>2, BeginLoadAsks
  <2>4. nav'[s].loaded # nav[s].loaded
    BY DEF Shown
  <2>5. Shown(s)'.path = now.path /\ now.path = Parent(LeftBy(s)) /\ now.source = panes[s].source
    BY <2>3, <2>4 DEF Shown
  <2>6. nav'[s].loaded \in ListingRec \cup {Nothing}
    BY <2>3 DEF NavRec
  <2>7. chosen.filter = NoFilter /\ chosen.landOn = BaseName(LeftBy(s))
    <3>1. CASE /\ kept.leaving = NoPath \/ kept = nav[s]
               /\ chosen.landOn = sel[s].landOn /\ chosen.filter = sel[s].filter
      <4>1. LeftBy(s) = nav[s].leaving /\ nav[s].leaving # NoPath
        BY <2>3, <3>1
      <4>2. panes[s].path = Parent(LeftBy(s)) /\ sel[s].landOn = BaseName(LeftBy(s))
        BY <1>2, <1>5, <2>5, <4>1
      <4>3. now = panes[s]
        BY <2>1, <2>5, <4>2 DEF PaneRec
      <4> QED BY <2>3, <3>1, <4>2, <4>3
    <3>2. CASE /\ kept.leaving = nav[s].loaded.path /\ kept.leaving # NoPath
               /\ chosen.landOn = BaseName(nav[s].loaded.path) /\ chosen.filter = NoFilter
      BY <2>3, <3>2
    <3> QED BY <2>1, <3>1, <3>2 DEF Going
  <2> HIDE DEF Arrives, LeftBy
  <2> QED BY <1>3, <1>5, <2>1, <2>6, <2>7
<1> HIDE DEF A
<1>6. ASSUME IInv, LeadStep, NEW s \in Sides PROVE A(s)
  <2>1. PICK t \in Sides, now \in PaneRec, kept \in NavRec, chosen \in SelRec :
          Leads(t, now, kept, chosen)
    BY <1>6 DEF LeadStep
  <2>2. scene' = scene /\ sort' = sort
    BY <1>6 DEF LeadStep, sortVars
  <2>3. CASE t = s
    BY <1>5, <1>6, <2>1, <2>2, <2>3
  <2>4. CASE t # s
    <3>1. panes'[s] = panes[s] /\ nav'[s] = nav[s]
      BY <1>6, <2>1, <2>4 DEF Leads, BeginLoad, IInv, NavTypes
    <3> QED BY <1>1, <3>1
  <2> QED BY <2>3, <2>4
<1>7. ASSUME IInv, NEW t \in Sides, Land(t), NEW s \in Sides PROVE A(s)
  <2>1. CASE t = s
    BY <1>4, <1>7, <2>1
  <2>2. CASE t # s
    <3>1. panes' = panes /\ nav'[s] = nav[s]
      BY <1>7, <2>2, LandIs
    <3> QED BY <1>1, <3>1
  <2> QED BY <2>1, <2>2
<1>8. ASSUME IInv, Backend \/ OnFsChanged \/ StillStep \/ \E t \in Sides : ReadDir(t),
             NEW s \in Sides
      PROVE  A(s)
  <2>1. panes' = panes /\ nav' = nav
    BY <1>8 DEF Backend, TransferLands, ExecCall, OnFsChanged, StillStep, ReadDir, navVars
  <2> QED BY <1>1, <2>1
<1>9. ASSUME IInv, Next PROVE B
  <2>1. \A s \in Sides : A(s)
    BY <1>6, <1>7, <1>8, <1>9, StepIs
  <2> QED BY <2>1 DEF A
<1>10. IInv /\ [Next]_vars => [B]_vars
  <2> HIDE DEF B
  <2> QED BY <1>9
<1> QED BY Invariance, <1>10, PTL DEF Spec, UpLandsOnFolderLeft
=============================================================================
