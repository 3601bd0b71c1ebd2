---------------------------- MODULE QueueProofs ----------------------------
(***************************************************************************)
(* Theorems about QueueDock and the mirror it extends, for every set of    *)
(* rows, every size of the window, every scene and every bound.            *)
(*                                                                         *)
(* A change of the table is followed, from the backend's announcement to   *)
(* the list on screen, by something that will make the frontend read the   *)
(* table once more: an announcement not yet emitted, an event, a scheduled *)
(* fetch, or the newest read.  IInv says so of the rows as a whole         *)
(* (Mirrored), of the bytes of each row (Noted), and of the pause          *)
(* (PauseMirrored); the rest is what these three need.                     *)
(***************************************************************************)
EXTENDS QueueDock, FiniteSetTheorems, TLAPS

(* --- sequences of events --- *)

Tells(s) == \E k \in DOMAIN s : s[k] = Changed

\* A state is followed by the news that something changed.
Followed(s) ==
  \A k \in DOMAIN s : s[k].ev = "state" => \E m \in DOMAIN s : m > k /\ s[m] = Changed

\* The last word on a matter, if there is one, is not "bad".
Silent(s, bad) == \A k \in DOMAIN s : s[k] # bad
Stands(s, good, bad) ==
  \E k \in DOMAIN s : s[k] = good /\ \A m \in DOMAIN s : m > k => s[m] # bad

\* Where the elements of a concatenation come from.
LEMMA Concatenation ==
  ASSUME NEW s \in Seq(Event), NEW t \in Seq(Event)
  PROVE  /\ s \o t \in Seq(Event) /\ Len(s \o t) = Len(s) + Len(t)
         /\ DOMAIN s = 1..Len(s) /\ DOMAIN t = 1..Len(t) /\ DOMAIN (s \o t) = 1..(Len(s) + Len(t))
         /\ Len(s) \in Nat /\ Len(t) \in Nat
         /\ \A k \in DOMAIN s : (s \o t)[k] = s[k]
         /\ \A k \in DOMAIN t : (s \o t)[Len(s) + k] = t[k] /\ Len(s) + k \in DOMAIN (s \o t)
         /\ \A k \in DOMAIN (s \o t) : k \in DOMAIN s \/ (k - Len(s) \in DOMAIN t /\ (s \o t)[k] = t[k - Len(s)])
OBVIOUS

\* What a sequence says, it says with something before or after it.
LEMMA Appended ==
  ASSUME NEW s \in Seq(Event), NEW t \in Seq(Event)
  PROVE  /\ Tells(s \o t) <=> Tells(s) \/ Tells(t)
         /\ Followed(s) /\ Followed(t) => Followed(s \o t)
         /\ \A bad : Silent(s, bad) /\ Silent(t, bad) => Silent(s \o t, bad)
         /\ \A good, bad : Stands(t, good, bad) => Stands(s \o t, good, bad)
         /\ \A good, bad : Stands(s, good, bad) /\ Silent(t, bad) => Stands(s \o t, good, bad)
<1> DEFINE u == s \o t
<1>1. /\ DOMAIN s = 1..Len(s) /\ DOMAIN t = 1..Len(t) /\ DOMAIN u = 1..(Len(s) + Len(t))
      /\ Len(s) \in Nat /\ Len(t) \in Nat
      /\ \A k \in DOMAIN s : u[k] = s[k] /\ k \in DOMAIN u
      /\ \A k \in DOMAIN t : u[Len(s) + k] = t[k] /\ Len(s) + k \in DOMAIN u
      /\ \A k \in DOMAIN u : k \in DOMAIN s \/ (k - Len(s) \in DOMAIN t /\ u[k] = t[k - Len(s)])
  BY Concatenation
<1> HIDE DEF u
<1>2. Tells(u) <=> Tells(s) \/ Tells(t) BY <1>1 DEF Tells
<1>3. ASSUME Followed(s), Followed(t), NEW k \in DOMAIN u, u[k].ev = "state"
      PROVE  \E m \in DOMAIN u : m > k /\ u[m] = Changed
  <2>1. CASE k \in DOMAIN s
    <3>1. PICK m \in DOMAIN s : m > k /\ s[m] = Changed BY <1>1, <1>3, <2>1 DEF Followed
    <3> QED BY <1>1, <3>1
  <2>2. CASE k - Len(s) \in DOMAIN t /\ u[k] = t[k - Len(s)]
    <3>1. PICK m \in DOMAIN t : m > k - Len(s) /\ t[m] = Changed BY <1>3, <2>2 DEF Followed
    <3>2. Len(s) + m \in DOMAIN u /\ u[Len(s) + m] = Changed /\ Len(s) + m > k BY <1>1, <2>2, <3>1
    <3> QED BY <3>2
  <2> QED BY <1>1, <2>1, <2>2
<1>4. ASSUME NEW bad, Silent(s, bad), Silent(t, bad) PROVE Silent(u, bad)
  BY <1>1, <1>4 DEF Silent
<1>5. ASSUME NEW good, NEW bad, Stands(t, good, bad) PROVE Stands(u, good, bad)
  <2>1. PICK k \in DOMAIN t : t[k] = good /\ \A m \in DOMAIN t : m > k => t[m] # bad
    BY <1>5 DEF Stands
  <2>2. Len(s) + k \in DOMAIN u /\ u[Len(s) + k] = good BY <1>1, <2>1
  <2>3. ASSUME NEW m \in DOMAIN u, m > Len(s) + k PROVE u[m] # bad
    <3>1. m \notin DOMAIN s BY <1>1, <2>3
    <3>2. m - Len(s) \in DOMAIN t /\ u[m] = t[m - Len(s)] BY <1>1, <3>1
    <3>3. m - Len(s) > k BY <1>1, <2>3
    <3> QED BY <2>1, <3>2, <3>3
  <2> QED BY <2>2, <2>3 DEF Stands
<1>6. ASSUME NEW good, NEW bad, Stands(s, good, bad), Silent(t, bad) PROVE Stands(u, good, bad)
  <2>1. PICK k \in DOMAIN s : s[k] = good /\ \A m \in DOMAIN s : m > k => s[m] # bad
    BY <1>6 DEF Stands
  <2>2. k \in DOMAIN u /\ u[k] = good BY <1>1, <2>1
  <2>3. \A m \in DOMAIN u : m > k => u[m] # bad BY <1>1, <1>6, <2>1 DEF Silent
  <2> QED BY <2>2, <2>3 DEF Stands
<1> QED BY <1>2, <1>3, <1>4, <1>5, <1>6 DEF Followed, u

\* What is left when the first event is delivered.
LEMMA Delivered ==
  ASSUME NEW s \in Seq(Event), s # <<>>
  PROVE  /\ Head(s) \in Event /\ Tail(s) \in Seq(Event)
         /\ Tells(s) => Head(s) = Changed \/ Tells(Tail(s))
         /\ Followed(s) => Followed(Tail(s)) /\ (Head(s).ev = "state" => Tells(Tail(s)))
         /\ \A bad : Silent(s, bad) => Silent(Tail(s), bad) /\ Head(s) # bad
         /\ \A good, bad : Stands(s, good, bad) =>
              Stands(Tail(s), good, bad) \/ (Head(s) = good /\ Silent(Tail(s), bad))
<1> DEFINE t == Tail(s)
<1>1. /\ Head(s) \in Event /\ t \in Seq(Event)
      /\ DOMAIN s = 1..Len(s) /\ DOMAIN t = 1..(Len(s) - 1) /\ Len(s) \in Nat \ {0}
      /\ Head(s) = s[1]
      /\ \A k \in DOMAIN t : t[k] = s[k + 1]
  OBVIOUS
<1>2. \A k \in DOMAIN s : k = 1 \/ (k - 1 \in DOMAIN t /\ t[k - 1] = s[k])
  <2>1. ASSUME NEW k \in DOMAIN s, k # 1 PROVE k - 1 \in DOMAIN t /\ (k - 1) + 1 = k
    BY <1>1, <2>1
  <2> QED BY <1>1, <2>1
<1>3. \A k \in DOMAIN t : k + 1 \in DOMAIN s /\ k + 1 # 1 BY <1>1
<1>4. 1 \in DOMAIN s BY <1>1
<1> HIDE DEF t
<1>5. Tells(s) => Head(s) = Changed \/ Tells(t) BY <1>1, <1>2 DEF Tells
<1>6. ASSUME Followed(s) PROVE Followed(t) /\ (Head(s).ev = "state" => Tells(t))
  <2>1. ASSUME NEW k \in DOMAIN t, t[k].ev = "state"
        PROVE  \E m \in DOMAIN t : m > k /\ t[m] = Changed
    <3>1. s[k + 1].ev = "state" /\ k + 1 \in DOMAIN s BY <1>1, <1>3, <2>1
    <3>2. PICK m \in DOMAIN s : m > k + 1 /\ s[m] = Changed BY <1>6, <3>1 DEF Followed
    <3>3. m # 1 /\ m - 1 > k BY <1>1, <3>2
    <3> QED BY <1>2, <3>2, <3>3
  <2>2. ASSUME Head(s).ev = "state" PROVE Tells(t)
    <3>1. PICK m \in DOMAIN s : m > 1 /\ s[m] = Changed BY <1>1, <1>4, <1>6, <2>2 DEF Followed
    <3> QED BY <1>2, <3>1 DEF Tells
  <2> QED BY <2>1, <2>2 DEF Followed
<1>7. ASSUME NEW bad, Silent(s, bad) PROVE Silent(t, bad) /\ Head(s) # bad
  BY <1>1, <1>3, <1>4, <1>7 DEF Silent
<1>8. ASSUME NEW good, NEW bad, Stands(s, good, bad)
      PROVE  Stands(t, good, bad) \/ (Head(s) = good /\ Silent(t, bad))
  <2>1. PICK k \in DOMAIN s : s[k] = good /\ \A m \in DOMAIN s : m > k => s[m] # bad
    BY <1>8 DEF Stands
  <2>2. CASE k = 1
    <3>1. \A m \in DOMAIN t : t[m] # bad BY <1>1, <1>3, <2>1, <2>2
    <3> QED BY <1>1, <2>1, <2>2, <3>1 DEF Silent
  <2>3. CASE k # 1
    <3>1. k - 1 \in DOMAIN t /\ t[k - 1] = good BY <1>2, <2>1, <2>3
    <3>2. \A m \in DOMAIN t : m > k - 1 => t[m] # bad BY <1>1, <1>3, <2>1
    <3> QED BY <3>1, <3>2 DEF Stands
  <2> QED BY <2>2, <2>3
<1> QED BY <1>1, <1>5, <1>6, <1>7, <1>8 DEF t
-----------------------------------------------------------------------------
(* The inductive invariant.                                                *)

\* What may be announced: a state, with the news that something changed; the
\* news alone; a count of bytes, alone if it says there are some; the pause.
Speech(by, evs) ==
  \/ by \in Ids /\ evs = SettleEv(by)
  \/ /\ evs \in Seq(Event) /\ Followed(evs)
     /\ Tells(evs) \/ \A i \in Ids : Silent(evs, ProgressEv(i, FALSE))
     /\ \/ Tells(evs)
        \/ by \in Ids /\ evs = <<ProgressEv(by, TRUE)>>
        \/ by = 0 /\ \E on \in BOOLEAN : evs = <<PausedEv(on)>>
     /\ \/ \E on \in BOOLEAN : evs = <<PausedEv(on)>>
        \/ \A on \in BOOLEAN : Silent(evs, PausedEv(on))

RowsOk(f) == f \in [Ids -> Row \cup {NoRow}] /\ \A i \in Ids : f[i].state # "dispatched"

\* A row that is held has no bytes and does not run, unless the hold came late.
HeldWhole ==
  \A i \in Ids : rows[i].held /\ (rows[i].moved \/ rows[i].state = "active") => i \in holding.late

Shapes ==
  /\ MirrorTypeOK /\ HeldWhole
  /\ RowsOk(rows)
  /\ \A a \in out : Speech(a.by, a.evs)
  /\ Followed(wire)

\* Every read has a ticket of its own; what the newest has read is no older
\* than the list on screen.
Tickets ==
  /\ \A r \in reads, q \in reads : r.ticket = q.ticket => r = q
  /\ \A r \in reads : r.ver <= writes /\ (r.ticket = ticket /\ r.done => viewVer <= r.ver)

\* An announcement that makes the list be read again.
Heralds(a) == Tells(a.evs) \/ (a.by \in Ids /\ a.evs = SettleEv(a.by) /\ rows[a.by] # NoRow)
Heralded == (\E a \in out : Heralds(a)) \/ Tells(wire) \/ timer

Newest(r) == r \in reads /\ r.ticket = ticket
Fetching == \E r \in reads : Newest(r)

\* The rows of the window are on screen, or will be.
Mirrored ==
  \/ unheard \/ Heralded
  \/ /\ Fetching \/ Current
     /\ \A r \in reads : Newest(r) /\ r.done => \A i \in Ids : SameRow(r.list[i], Window(rows)[i])

\* That a row has bytes is known from its last progress event, or from the list.
EventSays(i) ==
  \/ \E a \in out : a.evs = <<ProgressEv(i, TRUE)>>
  \/ Stands(wire, ProgressEv(i, TRUE), ProgressEv(i, FALSE))
  \/ progress[i] /\ Silent(wire, ProgressEv(i, FALSE))

ListSays(i) ==
  /\ Fetching \/ view[i].moved
  /\ \A r \in reads : Newest(r) /\ r.done => r.list[i].moved

Noted ==
  \A i \in InWindow(rows) : rows[i].moved => unheard \/ Heralded \/ EventSays(i) \/ ListSays(i)

\* The pause on the button, once its first read has come in.
Shown ==
  /\ hydrate.at = "answered" /\ hydrate.fresh => hydrate.on = paused
  /\ hydrate.at = "done" \/ ~hydrate.fresh => uiPaused = paused

PauseSaid == \E a \in out, on \in BOOLEAN : a.evs = <<PausedEv(on)>>

PauseMirrored ==
  /\ \A a \in out, on \in BOOLEAN : a.evs = <<PausedEv(on)>> => on = paused
  /\ \/ PauseSaid
     \/ Stands(wire, PausedEv(paused), PausedEv(~paused))
     \/ Silent(wire, PausedEv(~paused)) /\ Shown

MirrorInv == Shapes /\ Tickets /\ Mirrored /\ Noted /\ PauseMirrored
-----------------------------------------------------------------------------
(* Writing: the steps that change the table and announce it.               *)

\* Everything the backend announces is speech of the kinds above.
LEMMA Forms ==
  ASSUME NEW i \in Ids, NEW s \in State, NEW on \in BOOLEAN
  PROVE  /\ \A by \in Ids \cup {0} : /\ Speech(by, EmitState(i, s)) /\ Speech(by, <<Changed>>)
                                     /\ Speech(by, <<ProgressEv(i, TRUE), StateEv(i, s), Changed>>)
                                     /\ Speech(by, <<StateEv(i, s), Changed, ProgressEv(i, FALSE)>>)
                                     /\ Speech(by, <<ProgressEv(i, FALSE), StateEv(i, s), Changed>>)
                                     /\ Speech(by, <<ProgressEv(i, FALSE), Changed>>)
         /\ Speech(i, SettleEv(i)) /\ Speech(i, <<ProgressEv(i, TRUE)>>) /\ Speech(0, <<PausedEv(on)>>)
         /\ <<ProgressEv(i, TRUE)>> \in Seq(Event)
         /\ Tells(EmitState(i, s)) /\ Tells(<<Changed>>)
         /\ Tells(<<ProgressEv(i, TRUE), StateEv(i, s), Changed>>)
         /\ Tells(<<StateEv(i, s), Changed, ProgressEv(i, FALSE)>>)
         /\ Tells(<<ProgressEv(i, FALSE), StateEv(i, s), Changed>>)
         /\ Tells(<<ProgressEv(i, FALSE), Changed>>)
<1> DEFINE S == StateEv(i, s)  C == Changed  T == ProgressEv(i, TRUE)  F == ProgressEv(i, FALSE)
           P == PausedEv(on)
<1>1. S \in Event /\ C \in Event /\ T \in Event /\ F \in Event /\ P \in Event
  <2>1. S \in {StateEv(j, t) : j \in Ids, t \in State} OBVIOUS
  <2>2. TRUE \in BOOLEAN /\ FALSE \in BOOLEAN OBVIOUS
  <2> DEFINE Bytes == {ProgressEv(j, c) : j \in Ids, c \in BOOLEAN}
  <2>3. \A b \in BOOLEAN : ProgressEv(i, b) \in Bytes OBVIOUS
  <2> HIDE DEF Bytes
  <2>4. T \in Bytes BY <2>3, Zenon
  <2>7. F \in Bytes BY <2>3, Zenon
  <2>5. P \in {PausedEv(b) : b \in BOOLEAN} OBVIOUS
  <2> HIDE DEF S, C, T, F, P
  <2>6. C \in {Changed} BY DEF C
  <2> QED BY <2>1, <2>4, <2>5, <2>6, <2>7 DEF Event, Bytes
<1>2. /\ S.ev = "state" /\ C.ev = "changed" /\ T.ev = "progress" /\ F.ev = "progress"
      /\ P.ev = "paused" /\ T.val = "some"
      /\ \A x \in BOOLEAN : PausedEv(x).ev = "paused"
      /\ \A j \in Ids : ProgressEv(j, FALSE).ev = "progress" /\ ProgressEv(j, FALSE).val = "none"
  BY DEF StateEv, Changed, ProgressEv, PausedEv
<1> HIDE DEF S, C, T, F, P
<1>3. /\ <<S, C>> \in Seq(Event) /\ <<C>> \in Seq(Event) /\ <<T, S, C>> \in Seq(Event)
      /\ <<S, C, F>> \in Seq(Event) /\ <<F, S, C>> \in Seq(Event) /\ <<F, C>> \in Seq(Event)
      /\ <<T>> \in Seq(Event) /\ <<P>> \in Seq(Event)
  BY <1>1
<1>4. /\ Followed(<<S, C>>) /\ Followed(<<C>>) /\ Followed(<<T, S, C>>) /\ Followed(<<S, C, F>>)
      /\ Followed(<<F, S, C>>) /\ Followed(<<F, C>>) /\ Followed(<<T>>) /\ Followed(<<P>>)
  BY <1>2 DEF Followed, C
<1>5. /\ Tells(<<S, C>>) /\ Tells(<<C>>) /\ Tells(<<T, S, C>>) /\ Tells(<<S, C, F>>)
      /\ Tells(<<F, S, C>>) /\ Tells(<<F, C>>)
  BY DEF Tells, C
<1>6. \A x \in BOOLEAN :
        /\ Silent(<<S, C>>, PausedEv(x)) /\ Silent(<<C>>, PausedEv(x))
        /\ Silent(<<T, S, C>>, PausedEv(x)) /\ Silent(<<S, C, F>>, PausedEv(x))
        /\ Silent(<<F, S, C>>, PausedEv(x)) /\ Silent(<<F, C>>, PausedEv(x))
        /\ Silent(<<T>>, PausedEv(x))
  BY <1>2 DEF Silent
<1>7. \A j \in Ids : Silent(<<T>>, ProgressEv(j, FALSE)) /\ Silent(<<P>>, ProgressEv(j, FALSE))
  <2>1. \A j \in Ids : T # ProgressEv(j, FALSE) /\ P # ProgressEv(j, FALSE)
    <3> TAKE j \in Ids
    <3>1. ProgressEv(j, FALSE).ev = "progress" /\ ProgressEv(j, FALSE).val = "none" BY <1>2
    <3>2. T # ProgressEv(j, FALSE) BY <1>2, <3>1
    <3>3. P # ProgressEv(j, FALSE) BY <1>2, <3>1
    <3> QED BY <3>2, <3>3
  <2>2. ASSUME NEW bad, T # bad, P # bad PROVE Silent(<<T>>, bad) /\ Silent(<<P>>, bad)
    BY <2>2 DEF Silent
  <2> QED BY <2>1, <2>2
<1>8. 0 \notin Ids BY IdAssumption
<1>9. EmitState(i, s) = <<S, C>> BY DEF EmitState, S, C
<1>10. Speech(i, <<T>>) BY <1>3, <1>4, <1>6, <1>7 DEF Speech, T
<1>11. Speech(0, <<P>>) BY <1>3, <1>4, <1>7 DEF Speech, P
<1>12. Speech(i, SettleEv(i)) BY DEF Speech
<1>13. \A by \in Ids \cup {0} :
         /\ Speech(by, <<S, C>>) /\ Speech(by, <<C>>) /\ Speech(by, <<T, S, C>>)
         /\ Speech(by, <<S, C, F>>) /\ Speech(by, <<F, S, C>>) /\ Speech(by, <<F, C>>)
  BY <1>3, <1>4, <1>5, <1>6 DEF Speech
<1> QED BY <1>3, <1>5, <1>9, <1>10, <1>11, <1>12, <1>13 DEF S, C, T, F, P

\* The news alone.
LEMMA NewsIsSpeech == Speech(0, <<Changed>>) /\ Tells(<<Changed>>)
<1> DEFINE C == Changed
<1>1. C \in Event BY DEF Event
<1>2. C.ev = "changed" /\ \A x \in BOOLEAN : PausedEv(x).ev = "paused" BY DEF Changed, PausedEv
<1>3. Tells(<<C>>) BY DEF Tells
<1> HIDE DEF C
<1>4. Followed(<<C>>) BY <1>2 DEF Followed
<1>5. \A x \in BOOLEAN : Silent(<<C>>, PausedEv(x)) BY <1>2 DEF Silent
<1>6. <<C>> \in Seq(Event) BY <1>1
<1> QED BY <1>3, <1>4, <1>5, <1>6 DEF Speech, C

\* The pause alone.
LEMMA PauseIsSpeech ==
  ASSUME NEW on \in BOOLEAN
  PROVE  Speech(0, <<PausedEv(on)>>)
<1> DEFINE P == PausedEv(on)
<1>1. P \in {PausedEv(b) : b \in BOOLEAN} OBVIOUS
<1>2. P.ev = "paused" /\ \A i \in Ids : ProgressEv(i, FALSE).ev = "progress" BY DEF ProgressEv, PausedEv
<1>3. \E x \in BOOLEAN : <<P>> = <<PausedEv(x)>> OBVIOUS
<1> HIDE DEF P
<1>4. <<P>> \in Seq(Event)
  <2>1. P \in Event BY <1>1 DEF Event
  <2> QED BY <2>1
<1>5. Followed(<<P>>) BY <1>2 DEF Followed
<1>6. \A i \in Ids : Silent(<<P>>, ProgressEv(i, FALSE))
  <2>1. ASSUME NEW bad, bad.ev # "paused" PROVE Silent(<<P>>, bad) BY <1>2, <2>1 DEF Silent
  <2> QED BY <1>2, <2>1
<1>7. 0 \notin Ids BY IdAssumption
<1>8. Speech(0, <<P>>) BY <1>3, <1>4, <1>5, <1>6, <1>7 DEF Speech
<1> QED BY <1>8 DEF P

\* What is announced of the pause is the pause or its opposite.
LEMMA PauseIsOne ==
  ASSUME NEW on \in BOOLEAN, NEW off \in BOOLEAN, PausedEv(on) = PausedEv(off)
  PROVE  on = off
BY DEF PausedEv

\* Rows that have states are rows.
LEMMA RowFacts ==
  ASSUME RowsOk(rows), NEW i \in Ids
  PROVE  /\ rows[i] \in Row \cup {NoRow}
         /\ rows[i] = NoRow <=> rows[i].state = "none"
         /\ rows[i] # NoRow => rows[i] \in Row
         /\ rows[i].held => rows[i] \in Row
         /\ rows[i].moved => rows[i] \in Row
         /\ rows[i].state # "dispatched"
BY DEF RowsOk, Row, NoRow, State

\* Tables that differ in bytes only have the same window.
LEMMA WindowKept ==
  ASSUME NEW f, NEW g, RowsOk(f), RowsOk(g), \A i \in Ids : SameRow(f[i], g[i])
  PROVE  InWindow(f) = InWindow(g) /\ \A i \in Ids : SameRow(Window(f)[i], Window(g)[i])
<1>1. \A i \in Ids : f[i].state = g[i].state
  <2>1. \A r \in Row \cup {NoRow} : [r EXCEPT !.moved = FALSE].state = r.state BY DEF Row, NoRow
  <2> QED BY <2>1 DEF RowsOk, SameRow
<1>2. \A S : InState(f, S) = InState(g, S) BY <1>1 DEF InState
<1>3. InWindow(f) = InWindow(g) BY <1>2 DEF InWindow
<1> QED BY <1>3 DEF Window, SameRow

\* What a list of a table shows is a list of rows.
LEMMA WindowIs ==
  ASSUME NEW f, RowsOk(f)
  PROVE  /\ InWindow(f) \subseteq Ids /\ Window(f) \in [Ids -> Row \cup {NoRow}]
         /\ \A i \in InWindow(f) : Window(f)[i] = f[i]
         /\ \A i \in Ids : i \notin InWindow(f) => Window(f)[i] = NoRow
<1>1. InWindow(f) \subseteq Ids BY DEF InWindow, InState, OldestOf, NewestOf
<1> QED BY <1>1 DEF Window, RowsOk

\* Rows that are the same but for their bytes have the same fields otherwise.
LEMMA SameIs ==
  ASSUME NEW r \in Row \cup {NoRow}, NEW s \in Row \cup {NoRow}, SameRow(r, s)
  PROVE  r.state = s.state /\ r.held = s.held /\ r.retry = s.retry
<1>1. \A x \in Row \cup {NoRow} : /\ [x EXCEPT !.moved = FALSE].state = x.state
                                  /\ [x EXCEPT !.moved = FALSE].held = x.held
                                  /\ [x EXCEPT !.moved = FALSE].retry = x.retry
  BY DEF Row, NoRow
<1> QED BY <1>1 DEF SameRow

\* No hold is put on a row, and none of those there are is outrun.
Tame(i, row) ==
  row.held => /\ rows[i].held
              /\ row.moved \/ row.state = "active" => rows[i].moved \/ rows[i].state = "active"

LEMMA HoldsStay ==
  ASSUME MirrorInv, holding' = holding, \A i \in Ids : Tame(i, rows'[i])
  PROVE  HeldWhole'
BY DEF MirrorInv, Shapes, HeldWhole, Tame

\* What a step of the backend does to the table and the announcements.
Told == unheard' \/ (\E a \in out' : Heralds(a)')
Kept ==
  /\ UNCHANGED unheard
  /\ \A i \in Ids : /\ SameRow(rows'[i], rows[i]) /\ (rows'[i] = NoRow <=> rows[i] = NoRow)
                    /\ rows'[i].moved =>
                         rows[i].moved \/ \E a \in out' : a.evs = <<ProgressEv(i, TRUE)>>

PauseStands ==
  paused' = paused /\ \A a \in out' \ out, on \in BOOLEAN : a.evs # <<PausedEv(on)>>
PauseMoves ==
  /\ paused' \in BOOLEAN
  /\ \A a \in out, on \in BOOLEAN : a.evs # <<PausedEv(on)>>
  /\ \E x : out' = out \cup {x} /\ x.evs = <<PausedEv(paused')>>

Wrote ==
  /\ UNCHANGED <<scene, wire, readVars, listVars, progress, pauseVars>>
  /\ RowsOk(rows') /\ writes' \in {writes, writes + 1} /\ writes' <= scene.writes
  /\ due \subseteq due' /\ due' \subseteq Nat /\ holding' \in Holding /\ unheard' \in BOOLEAN
  /\ HeldWhole'
  /\ calls' \subseteq calls
  /\ out \subseteq out' /\ \A a \in out' \ out : a \in Announcement /\ Speech(a.by, a.evs)
  /\ Told \/ Kept
  /\ PauseStands \/ PauseMoves

\* A single announcement, and what makes it one.
LEMMA SaidIs ==
  ASSUME MirrorInv, writes < scene.writes, NEW by \in Ids \cup {0}, NEW evs, Speech(by, evs),
         NEW a \in Says(by, evs)
  PROVE  a \in Announcement /\ Speech(a.by, a.evs) /\ a.by = by /\ a.evs = evs
<1>1. a = [by |-> by, at |-> writes + 1, evs |-> evs] BY DEF Says
<1>2. writes \in Nat /\ scene.writes \in Nat
  BY SceneAssumption DEF MirrorInv, Shapes, MirrorTypeOK
<1>3. writes + 1 \in 0..scene.writes + 1 BY <1>2
<1>4. evs \in Seq(Event) \cup {SettleEv(i) : i \in Ids} BY DEF Speech
<1> QED BY <1>1, <1>3, <1>4 DEF Announcement

\* A write that somebody hears of, or that counts as unheard.
LEMMA WriteTells ==
  ASSUME MirrorInv, NEW next, NEW said, Write(next, said), RowsOk(next),
         \A a \in said : /\ a \in Announcement /\ Speech(a.by, a.evs)
                         /\ \A on \in BOOLEAN : a.evs # <<PausedEv(on)>>,
         unheard' \in BOOLEAN, unheard' \/ \E a \in said \cup out : Heralds(a)',
         UNCHANGED <<scene, due, paused, wire, readVars, listVars, progress, pauseVars>>,
         holding' \in Holding, HeldWhole', calls' \subseteq calls
  PROVE  Wrote
<1>1. writes \in Nat /\ scene.writes \in Nat /\ due \subseteq Nat
  BY SceneAssumption DEF MirrorInv, Shapes, MirrorTypeOK
<1>2. writes' <= scene.writes /\ writes' = writes + 1 BY <1>1 DEF Write
<1>3. out' = out \cup said /\ rows' = next BY DEF Write
<1>4. Told BY <1>3 DEF Told
<1>5. PauseStands BY <1>3 DEF PauseStands
<1> QED BY <1>1, <1>2, <1>3, <1>4, <1>5 DEF Wrote

\* Speech with the news in it is not about the pause.
LEMMA TellsOfRows ==
  ASSUME NEW evs, Tells(evs)
  PROVE  \A on \in BOOLEAN : evs # <<PausedEv(on)>>
<1>1. ASSUME NEW on \in BOOLEAN, evs = <<PausedEv(on)>> PROVE FALSE
  <2>1. PICK k \in DOMAIN <<PausedEv(on)>> : <<PausedEv(on)>>[k] = Changed BY <1>1 DEF Tells
  <2>2. PausedEv(on) = Changed BY <2>1
  <2> QED BY <2>2 DEF PausedEv, Changed
<1> QED BY <1>1

\* An order to settle is not about the pause.
LEMMA SettleIsOfRow ==
  ASSUME NEW i
  PROVE  \A on \in BOOLEAN : SettleEv(i) # <<PausedEv(on)>>
<1>1. ASSUME NEW on \in BOOLEAN, SettleEv(i) = <<PausedEv(on)>> PROVE FALSE
  <2>1. SettleEv(i)[1] = PausedEv(on) BY <1>1
  <2> QED BY <2>1 DEF SettleEv, PausedEv
<1> QED BY <1>1

\* A row of the table with a field changed is a row of the table.
LEMMA RowKept ==
  ASSUME MirrorInv, NEW i \in Ids, rows[i] \in Row
  PROVE  /\ \A s \in State : [rows[i] EXCEPT !.state = s] \in Row
         /\ \A s \in State, b \in BOOLEAN : [rows[i] EXCEPT !.state = s, !.moved = b] \in Row
         /\ \A s \in State, n \in Nat : [rows[i] EXCEPT !.state = s, !.retry = n] \in Row
         /\ \A s \in State, b \in BOOLEAN : [rows[i] EXCEPT !.state = s, !.held = b] \in Row
         /\ \A b \in BOOLEAN : [rows[i] EXCEPT !.moved = b] \in Row /\ [rows[i] EXCEPT !.held = b] \in Row
BY DEF Row

\* A runner's write, announced with the news that something changed.
LEMMA RunnerWrites ==
  ASSUME MirrorInv, NEW i \in Ids, NEW row \in Row, row.state # "dispatched", Tame(i, row),
         NEW evs, Speech(i, evs), Tells(evs), Runner(i, row, evs)
  PROVE  Wrote
<1>1. Write([rows EXCEPT ![i] = row], Says(i, evs)) /\ unheard' = FALSE
  BY DEF Runner, Announced
<1>2. RowsOk([rows EXCEPT ![i] = row]) BY DEF MirrorInv, Shapes, RowsOk
<1>3. ASSUME NEW a \in Says(i, evs)
      PROVE  a \in Announcement /\ Speech(a.by, a.evs) /\ \A on \in BOOLEAN : a.evs # <<PausedEv(on)>>
  <2>1. a \in Announcement /\ Speech(a.by, a.evs) /\ a.evs = evs BY <1>1, SaidIs DEF Write
  <2> QED BY <2>1, TellsOfRows
<1>4. \E a \in Says(i, evs) \cup out : Heralds(a)'
  <2>1. \A a : Tells(a.evs) => Heralds(a)' BY DEF Heralds
  <2>2. \E a \in Says(i, evs) : a.evs = evs BY DEF Says
  <2> QED BY <2>1, <2>2
<1>5. holding' \in Holding /\ calls' \subseteq calls
  BY DEF Runner, MirrorInv, Shapes, MirrorTypeOK
<1>6. UNCHANGED <<scene, due, paused, wire, readVars, listVars, progress, pauseVars>>
  BY DEF Runner, readVars
<1>7. HeldWhole'
  <2>1. \A j \in Ids : rows'[j] = IF j = i THEN row ELSE rows[j]
    BY <1>1 DEF Write, MirrorInv, Shapes, RowsOk
  <2>2. \A j \in Ids : Tame(j, rows'[j]) BY <2>1 DEF Tame
  <2>3. holding' = holding BY DEF Runner
  <2> QED BY <2>2, <2>3, HoldsStay
<1> QED BY <1>1, <1>2, <1>3, <1>4, <1>5, <1>6, <1>7, WriteTells

\* Claiming, finishing, failing, scheduling a retry, starting over, going back.
LEMMA RunnersWrite ==
  ASSUME MirrorInv, NEW i \in Ids,
         Claim(i) \/ Complete(i) \/ Fail(i) \/ ScheduleRetry(i) \/ Restart(i) \/ Requeue(i)
  PROVE  Wrote
<1>1. RowsOk(rows) /\ writes \in Nat /\ writes + 1 \in Nat /\ 0 \in Nat
  BY SceneAssumption DEF MirrorInv, Shapes, MirrorTypeOK
<1>2. {"active", "pending", "completed", "failed"} \subseteq State /\ TRUE \in BOOLEAN /\ FALSE \in BOOLEAN
  BY DEF State
<1>3. rows[i].state # "none" => rows[i] \in Row BY <1>1, RowFacts
<1>4. CASE Claim(i)
  <2>1. rows[i].state = "pending" BY <1>4 DEF Claim, Claimable, InState
  <2> DEFINE r == [rows[i] EXCEPT !.state = "active"]
  <2>2. r \in Row /\ r.state = "active" /\ r.held = rows[i].held
    BY <1>2, <1>3, <2>1, RowKept DEF Row
  <2>3. Tame(i, r) BY <1>4, <2>2 DEF Claim, Claimable, Tame
  <2>4. Runner(i, r, EmitState(i, "active")) BY <1>4 DEF Claim
  <2> HIDE DEF r
  <2> QED BY <1>2, <2>2, <2>3, <2>4, Forms, RunnerWrites
<1>5. CASE Complete(i)
  <2>1. rows[i].state = "active" BY <1>5 DEF Complete, Running
  <2> DEFINE r == [rows[i] EXCEPT !.state = "completed", !.moved = TRUE]
  <2>2. r \in Row /\ r.state = "completed" /\ Tame(i, r) BY <1>2, <1>3, <2>1, RowKept DEF Row, Tame
  <2> DEFINE e == <<ProgressEv(i, TRUE), StateEv(i, "completed"), Changed>>
  <2>3. Runner(i, r, e) BY <1>5 DEF Complete
  <2>4. Speech(i, e) /\ Tells(e) BY <1>2, Forms
  <2> HIDE DEF r, e
  <2> QED BY <2>2, <2>3, <2>4, RunnerWrites
<1>6. CASE Fail(i)
  <2>1. rows[i].state = "active" BY <1>6 DEF Fail, Running
  <2> DEFINE r == [rows[i] EXCEPT !.state = "failed"]
  <2>2. r \in Row /\ r.state = "failed" /\ Tame(i, r) BY <1>2, <1>3, <2>1, RowKept DEF Row, Tame
  <2>3. Runner(i, r, EmitState(i, "failed")) BY <1>6 DEF Fail
  <2> HIDE DEF r
  <2> QED BY <1>2, <2>2, <2>3, Forms, RunnerWrites
<1>7. CASE ScheduleRetry(i)
  <2>1. rows[i].state = "active" BY <1>7 DEF ScheduleRetry, Running
  <2> DEFINE r == [rows[i] EXCEPT !.state = "pending", !.retry = writes + 1]
  <2>2. r \in Row /\ r.state = "pending" /\ Tame(i, r)
    BY <1>1, <1>2, <1>3, <2>1, RowKept DEF Row, Tame
  <2>3. Runner(i, r, EmitState(i, "pending")) BY <1>7 DEF ScheduleRetry
  <2> HIDE DEF r
  <2> QED BY <1>2, <2>2, <2>3, Forms, RunnerWrites
<1>8. CASE Restart(i)
  <2>1. rows[i].state = "active" BY <1>8 DEF Restart, Running
  <2> DEFINE r == [rows[i] EXCEPT !.state = "pending", !.moved = FALSE]
  <2>2. r \in Row /\ r.state = "pending" /\ Tame(i, r) BY <1>2, <1>3, <2>1, RowKept DEF Row, Tame
  <2> DEFINE e == <<StateEv(i, "pending"), Changed, ProgressEv(i, FALSE)>>
  <2>3. Runner(i, r, e) BY <1>8 DEF Restart
  <2>4. Speech(i, e) /\ Tells(e) BY <1>2, Forms
  <2> HIDE DEF r, e
  <2> QED BY <2>2, <2>3, <2>4, RunnerWrites
<1>9. CASE Requeue(i)
  <2>1. rows[i].state = "active" BY <1>9 DEF Requeue, Running
  <2> DEFINE r == [rows[i] EXCEPT !.state = "pending", !.retry = 0]
  <2>2. r \in Row /\ r.state = "pending" /\ Tame(i, r)
    BY <1>1, <1>2, <1>3, <2>1, RowKept DEF Row, Tame
  <2>3. Runner(i, r, EmitState(i, "pending")) BY <1>9 DEF Requeue
  <2> HIDE DEF r
  <2> QED BY <1>2, <2>2, <2>3, Forms, RunnerWrites
<1> QED BY <1>4, <1>5, <1>6, <1>7, <1>8, <1>9


\* The steps of the backend that leave the frontend alone.
FrontStays == UNCHANGED <<wire, readVars, listVars, progress, pauseVars>>

\* A write that is announced as a change of the list, stopping runners or not.
LEMMA TableWrites ==
  ASSUME MirrorInv, NEW next, NEW said, NEW evs, RowsOk(next), Write(next, said),
         Speech(0, evs), Tells(evs), Says(0, evs) \subseteq said,
         \A a \in said : a \in Says(0, evs) \/ \E j \in Ids : a \in Settles(j),
         unheard' = FALSE, UNCHANGED <<scene, due, paused>>, FrontStays,
         holding' \in Holding, HeldWhole', calls' \subseteq calls
  PROVE  Wrote
<1>1. ASSUME NEW a \in said
      PROVE  a \in Announcement /\ Speech(a.by, a.evs) /\ \A on \in BOOLEAN : a.evs # <<PausedEv(on)>>
  <2>1. CASE a \in Says(0, evs)
    <3>1. a \in Announcement /\ Speech(a.by, a.evs) /\ a.evs = evs BY <2>1, SaidIs DEF Write
    <3> QED BY <3>1, TellsOfRows
  <2>2. ASSUME NEW j \in Ids, a \in Settles(j)
        PROVE  a \in Announcement /\ Speech(a.by, a.evs) /\ a.evs = SettleEv(j)
    <3>1. Speech(j, SettleEv(j)) BY DEF Speech
    <3>2. a \in Says(j, SettleEv(j)) BY <2>2 DEF Settles
    <3> QED BY <3>1, <3>2, SaidIs DEF Write
  <2> QED BY <2>1, <2>2, SettleIsOfRow
<1>2. \E a \in said \cup out : Heralds(a)'
  <2>1. \A a : Tells(a.evs) => Heralds(a)' BY DEF Heralds
  <2>2. \E a \in Says(0, evs) : a.evs = evs BY DEF Says
  <2> QED BY <2>1, <2>2
<1> QED BY <1>1, <1>2, WriteTells DEF FrontStays

\* The rows of a table, with some of them gone, or with a field changed.
LEMMA TableKept ==
  ASSUME MirrorInv
  PROVE  /\ \A i \in Ids, r \in Row : r.state # "dispatched" => RowsOk([rows EXCEPT ![i] = r])
         /\ \A S : RowsOk([i \in Ids |-> IF i \in S THEN NoRow ELSE rows[i]])
         /\ \A i \in Ids : rows[i] # NoRow => rows[i] \in Row
         /\ \A i \in Ids : rows[i].held => rows[i] \in Row
<1>1. RowsOk(rows) BY DEF MirrorInv, Shapes
<1>2. ASSUME NEW i \in Ids, NEW r \in Row, r.state # "dispatched" PROVE RowsOk([rows EXCEPT ![i] = r])
  BY <1>1, <1>2 DEF RowsOk
<1>3. ASSUME NEW S PROVE RowsOk([i \in Ids |-> IF i \in S THEN NoRow ELSE rows[i]])
  BY <1>1 DEF RowsOk, NoRow
<1> QED BY <1>1, <1>2, <1>3, RowFacts

\* A call that changes nothing writes nothing.
LEMMA NothingWritten ==
  ASSUME MirrorInv, UNCHANGED <<backVars, unheard>>, FrontStays, calls' \subseteq calls
  PROVE  Wrote
<1>1. scene' = scene /\ rows' = rows /\ due' = due /\ holding' = holding /\ paused' = paused
      /\ writes' = writes /\ out' = out /\ unheard' = unheard
  BY DEF backVars
<1>2. /\ RowsOk(rows) /\ writes <= scene.writes /\ due \subseteq Nat /\ holding \in Holding
      /\ unheard \in BOOLEAN
  BY SceneAssumption DEF MirrorInv, Shapes, MirrorTypeOK
<1>5. HeldWhole' BY <1>1 DEF MirrorInv, Shapes, HeldWhole
<1>3. Kept BY <1>1 DEF Kept, SameRow
<1>4. PauseStands BY <1>1 DEF PauseStands
<1> QED BY <1>1, <1>2, <1>3, <1>4, <1>5 DEF Wrote, FrontStays

\* Marking rows cancelled.
LEMMA CancelsWrite ==
  ASSUME MirrorInv, NEW c, NEW S \in SUBSET Ids, CancelRows(c, S), FrontStays,
         \A i \in S : rows[i] \in Row
  PROVE  Wrote
<1>1. CASE S = {} BY <1>1, NothingWritten DEF CancelRows, NoEffect, Answered
<1>2. CASE S # {}
  <2> DEFINE r(i) == [rows[i] EXCEPT !.held = FALSE,
                        !.state = IF i \in Cancellable(rows) THEN "cancelled" ELSE rows[i].state]
             next == [i \in Ids |-> IF i \in S THEN r(i) ELSE rows[i]]
  <2>1. /\ Write(next, Stopped(S) \cup Says(0, <<Changed>>)) /\ unheard' = FALSE
        /\ UNCHANGED <<scene, due, holding, paused>> /\ calls' \subseteq calls
    BY <1>2 DEF CancelRows, Announced, Answered
  <2>2. RowsOk(next)
    <3>1. RowsOk(rows) /\ "cancelled" \in State BY DEF MirrorInv, Shapes, State
    <3>2. ASSUME NEW i \in Ids PROVE next[i] \in Row \cup {NoRow} /\ next[i].state # "dispatched"
      <4>1. CASE i \in S
        <5>1. rows[i] \in Row /\ rows[i].state # "dispatched" BY <3>1, <4>1 DEF RowsOk
        <5>2. r(i) \in Row /\ r(i).state \in {"cancelled", rows[i].state} BY <3>1, <5>1 DEF Row
        <5> QED BY <4>1, <5>1, <5>2
      <4>2. CASE i \notin S BY <3>1, <4>2 DEF RowsOk
      <4> QED BY <4>1, <4>2
    <3> QED BY <3>2 DEF RowsOk
  <2>6. \A i \in Ids : Tame(i, next[i])
    <3>1. \A i \in S : ~r(i).held BY DEF Row
    <3> QED BY <3>1 DEF Tame
  <2>7. HeldWhole' BY <2>1, <2>6, HoldsStay DEF Write
  <2> HIDE DEF next
  <2>3. \A a \in Stopped(S) : \E j \in Ids : a \in Settles(j)
    <3>1. ASSUME NEW j \in S, AtWork(j) PROVE \A a \in Settles(j) : \E k \in Ids : a \in Settles(k)
      OBVIOUS
    <3> QED BY <3>1 DEF Stopped
  <2>4. Speech(0, <<Changed>>) /\ Tells(<<Changed>>) BY NewsIsSpeech
  <2>5. holding' \in Holding BY <2>1 DEF MirrorInv, Shapes, MirrorTypeOK
  <2> QED BY <2>1, <2>2, <2>3, <2>4, <2>5, <2>7, TableWrites
<1> QED BY <1>1, <1>2

\* Pause writes without asking what state the row is in.  A runner that is
\* stopped, or that has yet to announce its last write, will speak of the row.
LEMMA PauseWrites ==
  ASSUME MirrorInv, NEW c \in calls, Pause(c), FrontStays
  PROVE  Wrote
<1>1. PICK i \in c.ids :
        IF rows[i] = NoRow THEN NoEffect(c)
        ELSE /\ Write([rows EXCEPT ![i].state = "paused"], Stopped({i}))
             /\ unheard' = ~(Running(i) \/ Owes(i))
             /\ Answered(c) /\ UNCHANGED <<scene, due, holding, paused>>
  BY DEF Pause
<1>2. /\ i \in Ids /\ holding \in Holding /\ RowsOk(rows) /\ 0 \notin Ids
      /\ \A a \in out : a \in Announcement /\ Speech(a.by, a.evs)
  BY IdAssumption DEF MirrorInv, Shapes, MirrorTypeOK, Call
<1>3. CASE rows[i] = NoRow BY <1>1, <1>3, NothingWritten DEF NoEffect, Answered
<1>4. CASE rows[i] # NoRow
  <2> DEFINE r == [rows[i] EXCEPT !.state = "paused"]
  <2>1. rows[i] \in Row /\ "paused" \in State BY <1>2, <1>4, RowFacts DEF State
  <2>2. r \in Row /\ r.state = "paused" /\ r # NoRow BY <2>1, RowKept DEF Row, NoRow
  <2>3. Write([rows EXCEPT ![i] = r], Stopped({i})) BY <1>1, <1>4
  <2>4. RowsOk([rows EXCEPT ![i] = r]) BY <1>2, <2>2, TableKept
  <2>5. rows'[i] = r BY <1>2, <2>3 DEF Write, RowsOk
  <2>11. Tame(i, r) BY <2>1 DEF Tame, Row
  <2> HIDE DEF r
  <2>6. Stopped({i}) = IF AtWork(i) THEN Settles(i) ELSE {} BY DEF Stopped
  <2>7. ASSUME NEW a \in Stopped({i})
        PROVE  /\ a \in Announcement /\ Speech(a.by, a.evs) /\ a.by = i /\ a.evs = SettleEv(i)
               /\ \A on \in BOOLEAN : a.evs # <<PausedEv(on)>>
    <3>1. a \in Says(i, SettleEv(i)) BY <2>6, <2>7 DEF Settles
    <3>2. Speech(i, SettleEv(i)) BY <1>2 DEF Speech
    <3>3. a \in Announcement /\ Speech(a.by, a.evs) /\ a.by = i /\ a.evs = SettleEv(i)
      BY <1>2, <2>3, <3>1, <3>2, SaidIs DEF Write
    <3> QED BY <3>3, SettleIsOfRow
  <2>8. unheard' = ~(Running(i) \/ Owes(i)) /\ calls' \subseteq calls
        /\ UNCHANGED <<scene, due, holding, paused>>
    BY <1>1, <1>4 DEF Answered
  <2>9. ASSUME ~unheard' PROVE \E a \in Stopped({i}) \cup out : Heralds(a)'
    <3>1. \A a : a.by = i /\ a.evs = SettleEv(i) => Heralds(a)' BY <1>2, <2>2, <2>5 DEF Heralds
    <3>2. CASE AtWork(i)
      <4>1. \E a \in Stopped({i}) : TRUE BY <2>6, <3>2 DEF Settles, Says
      <4> QED BY <2>7, <3>1, <4>1
    <3>3. CASE ~AtWork(i)
      <4>1. PICK a \in out : a.by = i /\ a.evs # <<ProgressEv(i, TRUE)>>
        BY <2>8, <2>9, <3>3 DEF AtWork, Owes
      <4>2. a.evs = SettleEv(i) \/ Tells(a.evs) BY <1>2, <4>1 DEF Speech
      <4>3. Tells(a.evs) => Heralds(a)' BY DEF Heralds
      <4> QED BY <3>1, <4>1, <4>2, <4>3
    <3> QED BY <3>2, <3>3
  <2>10. holding' \in Holding /\ unheard' \in BOOLEAN BY <1>2, <2>8
  <2>12. HeldWhole'
    <3>1. \A j \in Ids : rows'[j] = IF j = i THEN r ELSE rows[j] BY <1>2, <2>3 DEF Write, RowsOk
    <3>2. \A j \in Ids : Tame(j, rows'[j]) BY <2>11, <3>1 DEF Tame
    <3> QED BY <2>8, <3>2, HoldsStay
  <2> QED BY <2>3, <2>4, <2>7, <2>8, <2>9, <2>10, <2>12, WriteTells DEF FrontStays
<1> QED BY <1>3, <1>4

\* What a call asks for, done.
LEMMA CallsWrite ==
  ASSUME MirrorInv, Exec
  PROVE  Wrote
<1>1. PICK c \in calls : /\ \/ Pause(c) \/ Resume(c) \/ Cancel(c) \/ RetryFailed(c) \/ Clear(c)
                            \/ ResolveConflicts(c) \/ SetPaused(c)
                         /\ CallFrame
  BY DEF Exec
<1>2. FrontStays BY <1>1 DEF CallFrame, FrontStays
<1>3. /\ RowsOk(rows) /\ holding \in Holding /\ c \in Call /\ c.ids \subseteq Ids
      /\ "pending" \in State /\ "cancelled" \in State /\ 0 \in Nat /\ FALSE \in BOOLEAN
      /\ writes \in Nat /\ writes <= scene.writes /\ scene.writes \in Nat /\ due \subseteq Nat
      /\ unheard \in BOOLEAN
  BY SceneAssumption DEF MirrorInv, Shapes, MirrorTypeOK, Call, State
<1>4. \A i \in Ids : rows[i].state # "none" => rows[i] \in Row BY <1>3, RowFacts
<1>5. CASE Pause(c) BY <1>2, <1>5, PauseWrites
<1>6. CASE Resume(c)
  <2>1. PICK i \in c.ids :
          IF rows[i] = NoRow THEN NoEffect(c)
          ELSE /\ Announced([rows EXCEPT ![i].state = "pending"], Says(0, EmitState(i, "pending")))
               /\ Answered(c) /\ UNCHANGED <<scene, due, holding, paused>>
    BY <1>6 DEF Resume
  <2>2. CASE rows[i] = NoRow BY <1>2, <2>1, <2>2, NothingWritten DEF NoEffect, Answered
  <2>3. CASE rows[i] # NoRow
    <3> DEFINE r == [rows[i] EXCEPT !.state = "pending"]
    <3>1. i \in Ids /\ rows[i] \in Row BY <1>3, <2>3, RowFacts
    <3>2. r \in Row /\ r.state = "pending" BY <1>3, <3>1, RowKept DEF Row
    <3>3. Write([rows EXCEPT ![i] = r], Says(0, EmitState(i, "pending"))) /\ unheard' = FALSE
          /\ UNCHANGED <<scene, due, holding, paused>> /\ calls' \subseteq calls
      BY <2>1, <2>3 DEF Announced, Answered
    <3>4. RowsOk([rows EXCEPT ![i] = r]) BY <3>1, <3>2, TableKept
    <3>6. Tame(i, r) BY <3>1 DEF Tame, Row
    <3> HIDE DEF r
    <3>7. HeldWhole'
      <4>1. \A j \in Ids : rows'[j] = IF j = i THEN r ELSE rows[j] BY <1>3, <3>1, <3>3 DEF Write, RowsOk
      <4>2. \A j \in Ids : Tame(j, rows'[j]) BY <3>6, <4>1 DEF Tame
      <4> QED BY <3>3, <4>2, HoldsStay
    <3>5. Speech(0, EmitState(i, "pending")) /\ Tells(EmitState(i, "pending"))
      BY <1>3, <3>1, Forms
    <3> QED BY <1>2, <1>3, <3>3, <3>4, <3>5, <3>7, TableWrites
  <2> QED BY <2>2, <2>3
<1>7. CASE Cancel(c)
  <2>1. ASSUME NEW i \in Cancellable(rows) \cup Waiting(rows) \cup HeldRows(rows)
        PROVE  rows[i] \in Row
    BY <1>3, <1>4, <2>1, RowFacts DEF Cancellable, Listed, Waiting, HeldRows, InState
  <2>2. /\ c.ids \cap Cancellable(rows) \in SUBSET Ids /\ Waiting(rows) \in SUBSET Ids
        /\ c.ids \cap HeldRows(rows) \in SUBSET Ids
    BY <1>3 DEF Waiting, InState
  <2> QED BY <1>2, <1>7, <2>1, <2>2, CancelsWrite DEF Cancel
<1>8. CASE RetryFailed(c)
  <2> DEFINE next == [i \in Ids |-> IF rows[i].state = "failed"
                                    THEN [rows[i] EXCEPT !.state = "pending", !.retry = 0]
                                    ELSE rows[i]]
  <2>1. Write(next, Says(0, <<Changed>>)) /\ unheard' = FALSE
        /\ UNCHANGED <<scene, due, holding, paused>> /\ calls' \subseteq calls
    BY <1>8 DEF RetryFailed, Announced, Answered
  <2>2. RowsOk(next)
    <3>1. ASSUME NEW i \in Ids PROVE next[i] \in Row \cup {NoRow} /\ next[i].state # "dispatched"
      <4>1. CASE rows[i].state = "failed"
        <5>1. next[i] \in Row BY <1>3, <1>4, <4>1, RowKept
        <5>2. next[i].state = "pending" BY <1>4, <4>1 DEF Row
        <5> QED BY <5>1, <5>2
      <4>2. CASE rows[i].state # "failed" BY <1>3, <4>2 DEF RowsOk
      <4> QED BY <4>1, <4>2
    <3> QED BY <3>1 DEF RowsOk
  <2>3. \A i \in Ids : Tame(i, next[i])
    <3>1. ASSUME NEW i \in Ids, rows[i].state = "failed" PROVE Tame(i, next[i])
      BY <1>4, <3>1 DEF Tame, Row
    <3> QED BY <3>1 DEF Tame
  <2>4. HeldWhole' BY <2>1, <2>3, HoldsStay DEF Write
  <2> HIDE DEF next
  <2> QED BY <1>2, <1>3, <2>1, <2>2, <2>4, NewsIsSpeech, TableWrites
<1>9. CASE Clear(c)
  <2>1. PICK gone, kept :
          /\ Announced([i \in Ids |-> IF i \in gone \ kept THEN NoRow ELSE rows[i]],
                       Says(0, <<Changed>>))
          /\ Answered(c) /\ UNCHANGED <<scene, due, holding, paused>>
    BY <1>9 DEF Clear
  <2> DEFINE next == [i \in Ids |-> IF i \in gone \ kept THEN NoRow ELSE rows[i]]
  <2>2. Write(next, Says(0, <<Changed>>)) /\ unheard' = FALSE /\ calls' \subseteq calls
    BY <2>1 DEF Announced, Answered
  <2>3. RowsOk(next) BY TableKept
  <2>4. \A i \in Ids : Tame(i, next[i]) BY DEF Tame, NoRow
  <2>5. HeldWhole' BY <2>1, <2>2, <2>4, HoldsStay DEF Write
  <2> HIDE DEF next
  <2> QED BY <1>2, <1>3, <2>1, <2>2, <2>3, <2>5, NewsIsSpeech, TableWrites
<1>10. CASE ResolveConflicts(c)
  <2>1. PICK S \in SUBSET (c.ids \cap HeldRows(rows)) :
          /\ Announced([i \in Ids |-> IF i \in S THEN [rows[i] EXCEPT !.held = FALSE] ELSE rows[i]],
                       Says(0, <<Changed>>))
          /\ Answered(c) /\ UNCHANGED <<scene, due, holding, paused>>
    BY <1>10 DEF ResolveConflicts
  <2> DEFINE next == [i \in Ids |-> IF i \in S THEN [rows[i] EXCEPT !.held = FALSE] ELSE rows[i]]
  <2>2. Write(next, Says(0, <<Changed>>)) /\ unheard' = FALSE /\ calls' \subseteq calls
    BY <2>1 DEF Announced, Answered
  <2>3. RowsOk(next)
    <3>1. ASSUME NEW i \in Ids PROVE next[i] \in Row \cup {NoRow} /\ next[i].state # "dispatched"
      <4>1. CASE i \in S
        <5>1. rows[i] \in Row BY <4>1, TableKept DEF HeldRows
        <5>2. next[i] \in Row BY <1>3, <4>1, <5>1, RowKept
        <5>3. next[i].state = rows[i].state BY <4>1, <5>1 DEF Row
        <5> QED BY <1>3, <5>2, <5>3 DEF RowsOk
      <4>2. CASE i \notin S BY <1>3, <4>2 DEF RowsOk
      <4> QED BY <4>1, <4>2
    <3> QED BY <3>1 DEF RowsOk
  <2>4. \A i \in Ids : Tame(i, next[i])
    <3>1. ASSUME NEW i \in S PROVE Tame(i, next[i])
      <4>1. rows[i] \in Row BY TableKept DEF HeldRows
      <4>2. ~next[i].held BY <4>1 DEF Row, HeldRows
      <4> QED BY <4>2 DEF Tame
    <3> QED BY <3>1 DEF Tame
  <2>5. HeldWhole' BY <2>1, <2>2, <2>4, HoldsStay DEF Write
  <2> HIDE DEF next
  <2> QED BY <1>2, <1>3, <2>1, <2>2, <2>3, <2>5, NewsIsSpeech, TableWrites
<1>11. CASE SetPaused(c)
  <2> DEFINE a == [by |-> 0, at |-> writes, evs |-> <<PausedEv(c.on)>>]
  <2>1. /\ paused' = c.on /\ c.on \in BOOLEAN /\ out' = out \cup {a} /\ calls' \subseteq calls
        /\ UNCHANGED <<scene, rows, due, holding, writes, unheard>>
    BY <1>3, <1>11 DEF SetPaused, Answered, Call
  <2>2. \A b \in out, on \in BOOLEAN : b.evs # <<PausedEv(on)>>
    BY <1>11 DEF SetPaused
  <2>3. Speech(0, <<PausedEv(c.on)>>) BY <2>1, PauseIsSpeech
  <2>4. a \in Announcement /\ Speech(a.by, a.evs)
    <3>1. <<PausedEv(c.on)>> \in Seq(Event) \cup {SettleEv(i) : i \in Ids} BY <2>3 DEF Speech
    <3>2. writes \in 0..scene.writes + 1 BY <1>3
    <3> QED BY <2>3, <3>1, <3>2 DEF Announcement
  <2>5. PauseMoves
    <3>1. a.evs = <<PausedEv(c.on)>> OBVIOUS
    <3> HIDE DEF a
    <3>2. a.evs = <<PausedEv(paused')>> BY <2>1, <3>1
    <3> QED BY <2>1, <2>2, <3>2 DEF PauseMoves
  <2>6. Kept BY <2>1 DEF Kept, SameRow
  <2>7. HeldWhole' BY <2>1, HoldsStay DEF Tame
  <2> HIDE DEF a
  <2> QED BY <1>2, <1>3, <2>1, <2>4, <2>5, <2>6, <2>7 DEF Wrote, FrontStays
<1> QED BY <1>1, <1>5, <1>6, <1>7, <1>8, <1>9, <1>10, <1>11

\* The other writes, and the deadline of a retry.
LEMMA OthersWrite ==
  ASSUME MirrorInv, NEW i \in Ids, NEW ask \in BOOLEAN,
         \/ Progress(i) \/ Sweep(i) \/ Enqueue(i, ask) \/ EnqueueAgain(i) \/ Hold(i) \/ HoldFails(i)
         \/ DeadlinePasses(i)
  PROVE  Wrote
<1>1. /\ RowsOk(rows) /\ holding \in Holding /\ HeldWhole /\ 0 \in Nat /\ TRUE \in BOOLEAN /\ FALSE \in BOOLEAN
      /\ writes \in Nat /\ writes <= scene.writes /\ scene.writes \in Nat /\ due \subseteq Nat
      /\ unheard \in BOOLEAN
  BY SceneAssumption DEF MirrorInv, Shapes, MirrorTypeOK
<1>2. rows[i].state # "none" => rows[i] \in Row BY <1>1, RowFacts
<1>3. CASE Progress(i)
  <2> DEFINE a == [by |-> i, at |-> writes, evs |-> <<ProgressEv(i, TRUE)>>]
             r == [rows[i] EXCEPT !.moved = TRUE]
  <2>1. /\ rows[i].state = "active" /\ rows' = [rows EXCEPT ![i] = r] /\ out' = out \cup {a}
        /\ UNCHANGED <<scene, due, holding, paused, writes, calls, unheard>> /\ FrontStays
    BY <1>3 DEF Progress, Running, FrontStays, readVars
  <2>2. rows[i] \in Row BY <1>2, <2>1
  <2>3. r \in Row /\ r.state = "active" BY <1>1, <2>1, <2>2, RowKept DEF Row
  <2>4. RowsOk(rows') BY <2>1, <2>3, TableKept
  <2>5. Speech(i, <<ProgressEv(i, TRUE)>>) BY Forms DEF State
  <2>6. a \in Announcement /\ Speech(a.by, a.evs) /\ a.evs = <<ProgressEv(i, TRUE)>>
    <3>1. <<ProgressEv(i, TRUE)>> \in Seq(Event) \cup {SettleEv(j) : j \in Ids} BY <2>5 DEF Speech
    <3>2. writes \in 0..scene.writes + 1 BY <1>1
    <3> QED BY <2>5, <3>1, <3>2 DEF Announcement
  <2>7. SameRow(r, rows[i]) /\ r # NoRow /\ rows[i] # NoRow
    <3>1. SameRow(r, rows[i]) BY <2>2 DEF SameRow, Row
    <3>2. r.state # NoRow.state /\ rows[i].state # NoRow.state BY <2>1, <2>3 DEF NoRow
    <3> QED BY <3>1, <3>2
  <2>8. PauseStands
    <3>1. \A on \in BOOLEAN : a.evs # <<PausedEv(on)>>
      <4>1. ASSUME NEW on \in BOOLEAN, a.evs = <<PausedEv(on)>> PROVE FALSE
        <5>1. ProgressEv(i, TRUE) = PausedEv(on) BY <4>1
        <5> QED BY <5>1 DEF ProgressEv, PausedEv
      <4> QED BY <4>1
    <3> QED BY <2>1, <3>1 DEF PauseStands
  <2> HIDE DEF a, r
  <2>9. Kept
    <3>1. \A j \in Ids : rows'[j] = IF j = i THEN r ELSE rows[j] BY <1>1, <2>1 DEF RowsOk
    <3>2. ASSUME NEW j \in Ids
          PROVE  /\ SameRow(rows'[j], rows[j]) /\ (rows'[j] = NoRow <=> rows[j] = NoRow)
                 /\ rows'[j].moved => rows[j].moved \/ \E b \in out' : b.evs = <<ProgressEv(j, TRUE)>>
      <4>1. CASE j = i BY <2>1, <2>6, <2>7, <3>1, <4>1
      <4>2. CASE j # i BY <3>1, <4>2 DEF SameRow
      <4> QED BY <4>1, <4>2
    <3> QED BY <2>1, <3>2 DEF Kept
  <2>10. HeldWhole'
    <3>1. \A j \in Ids : rows'[j] = IF j = i THEN r ELSE rows[j] BY <1>1, <2>1 DEF RowsOk
    <3>2. r.held = rows[i].held BY <2>2 DEF Row, r
    <3>3. \A j \in Ids : Tame(j, rows'[j]) BY <2>1, <3>1, <3>2 DEF Tame
    <3> QED BY <2>1, <3>3, HoldsStay
  <2> QED BY <1>1, <2>1, <2>4, <2>6, <2>8, <2>9, <2>10 DEF Wrote, FrontStays
<1>4. CASE Sweep(i)
  <2> DEFINE r == [rows[i] EXCEPT !.moved = FALSE]
             e == <<ProgressEv(i, FALSE), Changed>>
  <2>1. rows[i].state = "cancelled" /\ FrontStays /\ UNCHANGED <<scene, due, holding, paused, calls>>
    BY <1>4 DEF Sweep, FrontStays
  <2>2. rows[i] \in Row BY <1>2, <2>1
  <2>3. r \in Row /\ r.state = "cancelled" BY <1>1, <2>1, <2>2, RowKept DEF Row
  <2>4. RowsOk([rows EXCEPT ![i] = r]) BY <2>3, TableKept
  <2>5. Write([rows EXCEPT ![i] = r], Says(0, e)) /\ unheard' = FALSE BY <1>4 DEF Sweep, Announced
  <2>6. Speech(0, e) /\ Tells(e) BY Forms DEF State
  <2>7. Tame(i, r) BY <2>2, <2>3 DEF Tame, Row
  <2> HIDE DEF r, e
  <2>8. HeldWhole'
    <3>1. \A j \in Ids : rows'[j] = IF j = i THEN r ELSE rows[j] BY <1>1, <2>5 DEF Write, RowsOk
    <3>2. \A j \in Ids : Tame(j, rows'[j]) BY <2>7, <3>1 DEF Tame
    <3> QED BY <2>1, <3>2, HoldsStay
  <2> QED BY <1>1, <2>1, <2>4, <2>5, <2>6, <2>8, TableWrites
<1>5. CASE Enqueue(i, ask)
  <2> DEFINE r == [NoRow EXCEPT !.state = "pending"]
  <2>1. r \in Row /\ r.state = "pending" /\ ~r.held BY DEF Row, NoRow, State
  <2>2. RowsOk([rows EXCEPT ![i] = r]) BY <2>1, TableKept
  <2>3. /\ Write([rows EXCEPT ![i] = r], IF ask THEN {} ELSE Says(0, <<Changed>>))
        /\ unheard' = ask /\ UNCHANGED <<scene, due, paused, calls>> /\ FrontStays
        /\ holding' = [due |-> IF ask THEN holding.due \cup {i} ELSE holding.due,
                       late |-> holding.late \ {i}]
    BY <1>5 DEF Enqueue, CallFrame, FrontStays
  <2> HIDE DEF r
  <2>4. holding' \in Holding /\ holding'.late = holding.late \ {i} BY <1>1, <2>3 DEF Holding
  <2>5. HeldWhole'
    <3>1. \A j \in Ids : rows'[j] = IF j = i THEN r ELSE rows[j] BY <1>1, <2>3 DEF Write, RowsOk
    <3> QED BY <1>1, <2>1, <2>4, <3>1 DEF HeldWhole
  <2>6. CASE ask BY <1>1, <2>2, <2>3, <2>4, <2>5, <2>6, WriteTells DEF FrontStays
  <2>7. CASE ~ask BY <1>1, <2>2, <2>3, <2>4, <2>5, <2>7, NewsIsSpeech, TableWrites
  <2> QED BY <2>6, <2>7
<1>6. CASE Hold(i)
  <2> DEFINE r == [rows[i] EXCEPT !.held = TRUE]
             next == IF rows[i] = NoRow THEN rows ELSE [rows EXCEPT ![i] = r]
  <2>1. /\ Write(next, Says(0, <<Changed>>)) /\ unheard' = FALSE
        /\ UNCHANGED <<scene, due, paused, calls>> /\ FrontStays
        /\ holding' = [due |-> holding.due \ {i},
                       late |-> IF Running(i) \/ rows[i].moved THEN holding.late \cup {i}
                                ELSE holding.late]
    BY <1>6 DEF Hold, Announced, CallFrame, FrontStays
  <2>2. RowsOk(next)
    <3>1. CASE rows[i] = NoRow BY <1>1, <3>1
    <3>2. CASE rows[i] # NoRow
      <4>1. rows[i] \in Row BY <3>2, TableKept
      <4>2. r \in Row /\ r.state = rows[i].state BY <1>1, <4>1, RowKept DEF Row
      <4>3. r.state # "dispatched" BY <1>1, <4>2 DEF RowsOk
      <4>4. RowsOk([rows EXCEPT ![i] = r]) BY <4>2, <4>3, TableKept
      <4> QED BY <3>2, <4>4
    <3> QED BY <3>1, <3>2
  <2>3. /\ holding' \in Holding /\ holding.late \subseteq holding'.late
        /\ Running(i) \/ rows[i].moved => i \in holding'.late
    BY <1>1, <2>1 DEF Holding
  <2>4. HeldWhole'
    <3>1. ASSUME NEW j \in Ids, rows'[j].held, rows'[j].moved \/ rows'[j].state = "active"
          PROVE  j \in holding'.late
      <4>1. CASE j # i \/ rows[i] = NoRow
        <5>1. rows'[j] = rows[j] BY <1>1, <2>1, <4>1 DEF Write, RowsOk
        <5> QED BY <1>1, <2>3, <3>1, <5>1 DEF HeldWhole
      <4>2. CASE j = i /\ rows[i] # NoRow
        <5>1. rows'[i] = r BY <1>1, <2>1, <4>2 DEF Write, RowsOk
        <5>2. rows[i] \in Row BY <4>2, TableKept
        <5>3. r.moved = rows[i].moved /\ r.state = rows[i].state BY <5>2 DEF Row
        <5> QED BY <2>3, <3>1, <4>2, <5>1, <5>3 DEF Running
      <4> QED BY <4>1, <4>2
    <3> QED BY <3>1 DEF HeldWhole
  <2> HIDE DEF r, next
  <2> QED BY <2>1, <2>2, <2>3, <2>4, NewsIsSpeech, TableWrites
<1>7. CASE DeadlinePasses(i)
  <2>1. rows[i].retry \in Nat BY <1>1 DEF RowsOk, Row, NoRow
  <2>2. due' = due \cup {rows[i].retry} /\ FrontStays
        /\ UNCHANGED <<scene, rows, holding, paused, writes, calls, out, unheard>>
    BY <1>7 DEF DeadlinePasses, FrontStays
  <2>3. Kept BY <2>2 DEF Kept, SameRow
  <2>4. PauseStands BY <2>2 DEF PauseStands
  <2>5. HeldWhole' BY <1>1, <2>2 DEF HeldWhole
  <2> QED BY <1>1, <2>1, <2>2, <2>3, <2>4, <2>5 DEF Wrote, FrontStays
<1>8. CASE EnqueueAgain(i)
  <2>1. /\ holding' = [holding EXCEPT !.due = @ \cup {i}] /\ FrontStays
        /\ UNCHANGED <<scene, rows, due, paused, writes, calls, out, unheard>>
    BY <1>8 DEF EnqueueAgain, CallFrame, FrontStays
  <2>2. holding' \in Holding /\ holding'.late = holding.late BY <1>1, <2>1 DEF Holding
  <2>3. HeldWhole' BY <1>1, <2>1, <2>2 DEF HeldWhole
  <2>4. Kept BY <2>1 DEF Kept, SameRow
  <2>5. PauseStands BY <2>1 DEF PauseStands
  <2> QED BY <1>1, <2>1, <2>2, <2>3, <2>4, <2>5 DEF Wrote, FrontStays
<1>9. CASE HoldFails(i)
  <2>1. /\ holding' = [holding EXCEPT !.due = @ \ {i}] /\ FrontStays
        /\ UNCHANGED <<scene, due, paused, calls>>
        /\ \/ Write([rows EXCEPT ![i] = NoRow], {}) /\ unheard' = TRUE
           \/ UNCHANGED <<rows, writes, out, unheard>>
    BY <1>9 DEF HoldFails, CallFrame, FrontStays
  <2>2. holding' \in Holding /\ holding'.late = holding.late BY <1>1, <2>1 DEF Holding
  <2>3. CASE Write([rows EXCEPT ![i] = NoRow], {}) /\ unheard' = TRUE
    <3>1. RowsOk([rows EXCEPT ![i] = NoRow]) BY <1>1 DEF RowsOk, NoRow
    <3>2. \A j \in Ids : rows'[j] = IF j = i THEN NoRow ELSE rows[j]
      BY <1>1, <2>3 DEF Write, RowsOk
    <3>3. HeldWhole' BY <1>1, <2>2, <3>2 DEF HeldWhole, NoRow
    <3> QED BY <1>1, <2>1, <2>2, <2>3, <3>1, <3>3, WriteTells DEF FrontStays
  <2>4. CASE UNCHANGED <<rows, writes, out, unheard>>
    <3>1. HeldWhole' BY <1>1, <2>2, <2>4 DEF HeldWhole
    <3>2. Kept BY <2>4 DEF Kept, SameRow
    <3>3. PauseStands BY <2>1, <2>4 DEF PauseStands
    <3> QED BY <1>1, <2>1, <2>2, <2>4, <3>1, <3>2, <3>3 DEF Wrote, FrontStays
  <2> QED BY <2>1, <2>3, <2>4
<1> QED BY <1>3, <1>4, <1>5, <1>6, <1>7, <1>8, <1>9

\* A write of the backend keeps the invariant: what it changes it announces,
\* and what it does not announce leaves the list right.
LEMMA WroteKeeps ==
  ASSUME MirrorInv, Wrote
  PROVE  MirrorInv'
<1>1. Shapes /\ MirrorTypeOK /\ Tickets /\ Mirrored /\ Noted /\ PauseMirrored
  BY DEF MirrorInv, Shapes
<1>2. /\ scene' = scene /\ wire' = wire /\ reads' = reads /\ ticket' = ticket /\ timer' = timer
      /\ view' = view /\ viewDue' = viewDue /\ viewVer' = viewVer /\ patches' = patches
      /\ progress' = progress /\ uiPaused' = uiPaused /\ hydrate' = hydrate
  BY DEF Wrote, readVars, listVars, pauseVars
<1>3. /\ RowsOk(rows') /\ writes' \in {writes, writes + 1} /\ writes' <= scene.writes
      /\ due \subseteq due' /\ due' \subseteq Nat /\ holding' \in Holding /\ unheard' \in BOOLEAN
      /\ HeldWhole' /\ calls' \subseteq calls /\ out \subseteq out'
      /\ \A a \in out' \ out : a \in Announcement /\ Speech(a.by, a.evs)
      /\ Told \/ Kept
      /\ PauseStands \/ PauseMoves
  BY DEF Wrote
<1>4. writes \in Nat /\ scene.writes \in Nat /\ writes <= writes' /\ writes' \in 0..scene.writes
  BY <1>1, <1>3, SceneAssumption DEF MirrorTypeOK
<1>5. MirrorTypeOK'
  <2>1. paused' \in BOOLEAN BY <1>1, <1>3 DEF MirrorTypeOK, PauseStands, PauseMoves
  <2>2. viewVer' \in 0..writes' BY <1>1, <1>2, <1>4 DEF MirrorTypeOK
  <2>3. \A a \in out' : a \in Announcement' BY <1>1, <1>2, <1>3 DEF MirrorTypeOK, Announcement
  <2>4. \A r \in reads' : r \in Read' /\ r.ticket <= ticket' BY <1>1, <1>2 DEF MirrorTypeOK, Read
  <2>5. rows' \in [Ids -> Row \cup {NoRow}] BY <1>3 DEF RowsOk
  <2>6. writes' \in 0..scene'.writes BY <1>2, <1>4
  <2>7. /\ scene' \in Scenes /\ view' \in [Ids -> Row \cup {NoRow}]
        /\ due' \subseteq Nat /\ viewDue' \subseteq due' /\ holding' \in Holding
        /\ uiPaused' \in BOOLEAN /\ timer' \in BOOLEAN /\ unheard' \in BOOLEAN
        /\ calls' \subseteq Call /\ wire' \in Seq(Event) /\ ticket' \in Nat
        /\ patches' \in [Ids -> [state : State \cup {"none"}, ticket : 0..ticket']]
        /\ progress' \in [Ids -> BOOLEAN]
        /\ hydrate' \in [at : {"sent", "answered", "done"}, on : BOOLEAN, fresh : BOOLEAN]
    BY <1>1, <1>2, <1>3 DEF MirrorTypeOK
  <2> QED BY <2>1, <2>2, <2>3, <2>4, <2>5, <2>6, <2>7 DEF MirrorTypeOK
<1>6. Shapes'
  <2>1. \A a \in out' : Speech(a.by, a.evs) BY <1>1, <1>3 DEF Shapes
  <2>2. Followed(wire') BY <1>1, <1>2 DEF Shapes
  <2> QED BY <1>3, <1>5, <2>1, <2>2 DEF Shapes
<1>7. Tickets'
  <2>1. \A r \in reads : r.ver \in Nat BY <1>1 DEF MirrorTypeOK, Read
  <2> QED BY <1>1, <1>2, <1>4, <2>1 DEF Tickets
<1>8. ASSUME Told PROVE unheard' \/ Heralded' BY <1>8 DEF Told, Heralded
<1>9. ASSUME Kept
      PROVE  /\ unheard' = unheard /\ (Heralded => Heralded')
             /\ (Fetching <=> Fetching') /\ (Current => Current')
             /\ \A r : Newest(r)' <=> Newest(r)
             /\ InWindow(rows') = InWindow(rows)
             /\ \A f : \A i \in Ids : SameRow(f[i], Window(rows)[i]) => SameRow(f[i], Window(rows')[i])
  <2>1. /\ unheard' = unheard
        /\ \A i \in Ids : SameRow(rows'[i], rows[i]) /\ (rows'[i] = NoRow <=> rows[i] = NoRow)
    BY <1>9 DEF Kept
  <2>2. ASSUME NEW a \in out, Heralds(a) PROVE a \in out' /\ Heralds(a)'
    <3>1. CASE Tells(a.evs) BY <1>3, <3>1 DEF Heralds
    <3>2. CASE a.by \in Ids /\ a.evs = SettleEv(a.by) /\ rows[a.by] # NoRow
      BY <1>3, <2>1, <3>2 DEF Heralds
    <3> QED BY <2>2, <3>1, <3>2 DEF Heralds
  <2>3. Heralded => Heralded' BY <1>2, <2>2 DEF Heralded
  <2>4. \A r : Newest(r)' <=> Newest(r) BY <1>2 DEF Newest
  <2>5. Fetching <=> Fetching' BY <1>2 DEF Fetching, Newest
  <2>8. /\ InWindow(rows') = InWindow(rows)
        /\ \A i \in Ids : SameRow(Window(rows')[i], Window(rows)[i])
    BY <1>1, <1>3, <2>1, WindowKept DEF Shapes
  <2>6. \A f : \A i \in Ids : SameRow(f[i], Window(rows)[i]) => SameRow(f[i], Window(rows')[i])
    BY <2>8 DEF SameRow
  <2>7. Current => Current' BY <1>2, <2>6 DEF Current
  <2> QED BY <2>1, <2>3, <2>4, <2>5, <2>6, <2>7, <2>8
<1>10. Mirrored'
  <2>1. CASE Told BY <1>8, <2>1 DEF Mirrored
  <2>2. CASE Kept
    <3>1. CASE unheard \/ Heralded BY <1>9, <2>2, <3>1 DEF Mirrored
    <3>2. CASE /\ Fetching \/ Current
               /\ \A r \in reads : Newest(r) /\ r.done =>
                    \A i \in Ids : SameRow(r.list[i], Window(rows)[i])
      <4>1. Fetching' \/ Current' BY <1>9, <2>2, <3>2
      <4>2. ASSUME NEW r \in reads', Newest(r)', r.done, NEW i \in Ids
            PROVE  SameRow(r.list[i], Window(rows')[i])
        BY <1>2, <1>9, <2>2, <3>2, <4>2
      <4> QED BY <4>1, <4>2 DEF Mirrored
    <3> QED BY <1>1, <3>1, <3>2 DEF Mirrored
  <2> QED BY <1>3, <2>1, <2>2
<1>11. Noted'
  <2>1. CASE Told BY <1>8, <2>1 DEF Noted
  <2>2. CASE Kept
    <3> SUFFICES ASSUME NEW i \in InWindow(rows'), rows'[i].moved
                 PROVE  unheard' \/ Heralded' \/ EventSays(i)' \/ ListSays(i)'
      BY DEF Noted
    <3>3. i \in InWindow(rows) /\ i \in Ids BY <1>1, <1>9, <2>2, WindowIs DEF Shapes
    <3>1. CASE \E a \in out' : a.evs = <<ProgressEv(i, TRUE)>> BY <3>1 DEF EventSays
    <3>2. CASE rows[i].moved
      <4>1. unheard \/ Heralded => unheard' \/ Heralded' BY <1>9, <2>2
      <4>2. EventSays(i) => EventSays(i)' BY <1>2, <1>3 DEF EventSays
      <4>3. ListSays(i) => ListSays(i)' BY <1>2, <1>9, <2>2 DEF ListSays
      <4> QED BY <1>1, <3>2, <3>3, <4>1, <4>2, <4>3 DEF Noted
    <3> QED BY <2>2, <3>1, <3>2, <3>3 DEF Kept
  <2> QED BY <1>3, <2>1, <2>2
<1>12. PauseMirrored'
  <2>1. CASE PauseStands
    <3>1. paused' = paused /\ \A a \in out' \ out, on \in BOOLEAN : a.evs # <<PausedEv(on)>>
      BY <2>1 DEF PauseStands
    <3>2. \A a \in out', on \in BOOLEAN : a.evs = <<PausedEv(on)>> => on = paused'
      BY <1>1, <3>1 DEF PauseMirrored
    <3>3. PauseSaid => PauseSaid' BY <1>3 DEF PauseSaid
    <3>4. Shown => Shown' BY <1>2, <3>1 DEF Shown
    <3> QED BY <1>1, <1>2, <3>1, <3>2, <3>3, <3>4 DEF PauseMirrored
  <2>2. CASE PauseMoves
    <3>1. PICK x : out' = out \cup {x} /\ x.evs = <<PausedEv(paused')>> BY <2>2 DEF PauseMoves
    <3>2. paused' \in BOOLEAN /\ \A a \in out, on \in BOOLEAN : a.evs # <<PausedEv(on)>>
      BY <2>2 DEF PauseMoves
    <3>3. PauseSaid' BY <3>1, <3>2 DEF PauseSaid
    <3>4. ASSUME NEW a \in out', NEW on \in BOOLEAN, a.evs = <<PausedEv(on)>> PROVE on = paused'
      <4>1. <<PausedEv(on)>> = <<PausedEv(paused')>> BY <3>1, <3>2, <3>4
      <4>2. PausedEv(on) = PausedEv(paused') BY <4>1
      <4> QED BY <3>2, <4>2, PauseIsOne
    <3> QED BY <3>3, <3>4 DEF PauseMirrored
  <2> QED BY <1>3, <2>1, <2>2
<1> QED BY <1>6, <1>7, <1>10, <1>11, <1>12 DEF MirrorInv
-----------------------------------------------------------------------------
(* Emitting.                                                               *)

\* What an announcement says, once the state it settles on is read.
Discards(a) == a.evs = SettleEv(a.by) /\ rows[a.by].state = "cancelled" /\ rows[a.by].moved
Said(a) ==
  IF a.evs # SettleEv(a.by) THEN a.evs
  ELSE IF rows[a.by] = NoRow THEN <<>>
  ELSE IF Discards(a) THEN <<ProgressEv(a.by, FALSE), StateEv(a.by, "cancelled"), Changed>>
  ELSE EmitState(a.by, rows[a.by].state)

\* Nothing said is nothing about anything.
LEMMA NothingSaid ==
  /\ <<>> \in Seq(Event) /\ Followed(<<>>) /\ ~Tells(<<>>)
  /\ \A bad : Silent(<<>>, bad)
  /\ \A good, bad : ~Stands(<<>>, good, bad)
BY DEF Followed, Tells, Silent, Stands

\* An order to settle is not itself a sequence of events, and carries no news.
LEMMA SettleIsNoEvent ==
  ASSUME NEW i
  PROVE  SettleEv(i) \notin Seq(Event) /\ ~Tells(SettleEv(i))
<1> DEFINE e == [ev |-> "settle", id |-> i, val |-> ""]
<1>1. SettleEv(i) = <<e>> /\ e.ev = "settle" BY DEF SettleEv
<1>2. Changed.ev = "changed" BY DEF Changed
<1> HIDE DEF e
<1>3. ASSUME <<e>> \in Seq(Event) PROVE FALSE
  <2>1. <<e>>[1] \in Event BY <1>3
  <2>2. e \in Event BY <2>1
  <2>3. \A x \in Ids, y \in State : StateEv(x, y).ev = "state" BY DEF StateEv
  <2>4. \A x \in Ids, y \in BOOLEAN : ProgressEv(x, y).ev = "progress" BY DEF ProgressEv
  <2>5. \A x \in BOOLEAN : PausedEv(x).ev = "paused" BY DEF PausedEv
  <2> QED BY <1>1, <1>2, <2>2, <2>3, <2>4, <2>5 DEF Event
<1>4. ~Tells(<<e>>) BY <1>1, <1>2 DEF Tells
<1> QED BY <1>1, <1>3, <1>4

\* The last word is the whole of a sequence of one.
LEMMA OneWord ==
  ASSUME NEW e, NEW bad, e # bad
  PROVE  Stands(<<e>>, e, bad) /\ Silent(<<e>>, bad)
<1>1. Silent(<<e>>, bad) BY DEF Silent
<1>2. <<e>>[1] = e /\ 1 \in DOMAIN <<e>> /\ \A m \in DOMAIN <<e>> : m > 1 => <<e>>[m] # bad
  BY DEF Silent
<1> QED BY <1>1, <1>2 DEF Stands

\* What is emitted keeps every promise that was made of the announcement.
LEMMA EmitSays ==
  ASSUME MirrorInv, NEW a \in out
  PROVE  /\ Said(a) \in Seq(Event) /\ Followed(Said(a))
         /\ Heralds(a) => Tells(Said(a))
         /\ Tells(Said(a)) \/ \A i \in Ids : Silent(Said(a), ProgressEv(i, FALSE))
         /\ \/ \E on \in BOOLEAN : a.evs = <<PausedEv(on)>> /\ Said(a) = <<PausedEv(on)>>
            \/ /\ \A on \in BOOLEAN : a.evs # <<PausedEv(on)>>
               /\ \A on \in BOOLEAN : Silent(Said(a), PausedEv(on))
         /\ \A i \in Ids : a.evs = <<ProgressEv(i, TRUE)>> => Said(a) = a.evs
<1>1. Speech(a.by, a.evs) /\ RowsOk(rows) BY DEF MirrorInv, Shapes
<1>2. CASE a.evs = SettleEv(a.by)
  <2>1. a.by \in Ids BY <1>1, <1>2, SettleIsNoEvent DEF Speech
  <2>2. \A on \in BOOLEAN : a.evs # <<PausedEv(on)>> BY <1>2, SettleIsOfRow
  <2>3. ASSUME NEW i \in Ids, a.evs = <<ProgressEv(i, TRUE)>> PROVE FALSE
    <3>1. <<ProgressEv(i, TRUE)>> \in Seq(Event) BY Forms DEF State
    <3> QED BY <1>2, <2>3, <3>1, SettleIsNoEvent
  <2>4. CASE rows[a.by] = NoRow
    <3>1. Said(a) = <<>> /\ ~Heralds(a)
      <4>1. ~Tells(a.evs) BY <1>2, SettleIsNoEvent
      <4> QED BY <1>2, <2>4, <4>1 DEF Said, Heralds
    <3> QED BY <2>2, <2>3, <3>1, NothingSaid
  <2>5. CASE rows[a.by] # NoRow
    <3> DEFINE said == Said(a)
    <3>1. rows[a.by].state \in State /\ "cancelled" \in State /\ a.by \in Ids \cup {0}
      BY <1>1, <2>1, <2>5, RowFacts DEF State, Row
    <3>2. Speech(a.by, said) /\ Tells(said)
      <4>1. CASE Discards(a)
        <5>1. said = <<ProgressEv(a.by, FALSE), StateEv(a.by, "cancelled"), Changed>>
          BY <1>2, <2>5, <4>1 DEF Said
        <5> DEFINE e == <<ProgressEv(a.by, FALSE), StateEv(a.by, "cancelled"), Changed>>
        <5>2. Speech(a.by, e) /\ Tells(e) BY <2>1, <3>1, Forms
        <5> QED BY <5>1, <5>2
      <4>2. CASE ~Discards(a)
        <5>1. said = EmitState(a.by, rows[a.by].state) BY <1>2, <2>5, <4>2 DEF Said
        <5> QED BY <2>1, <3>1, <5>1, Forms
      <4> QED BY <4>1, <4>2
    <3> HIDE DEF said
    <3>3. said # SettleEv(a.by) BY <3>2, SettleIsNoEvent
    <3>4. said \in Seq(Event) /\ Followed(said) BY <3>2, <3>3 DEF Speech
    <3>5. \A on \in BOOLEAN : Silent(said, PausedEv(on)) BY <3>2, <3>3, TellsOfRows DEF Speech
    <3> QED BY <2>2, <2>3, <3>2, <3>4, <3>5 DEF said
  <2> QED BY <2>4, <2>5
<1>3. CASE a.evs # SettleEv(a.by)
  <2>1. Said(a) = a.evs BY <1>3 DEF Said
  <2>2. Heralds(a) => Tells(a.evs) BY <1>3 DEF Heralds
  <2>3. /\ a.evs \in Seq(Event) /\ Followed(a.evs)
        /\ Tells(a.evs) \/ \A i \in Ids : Silent(a.evs, ProgressEv(i, FALSE))
        /\ \/ \E on \in BOOLEAN : a.evs = <<PausedEv(on)>>
           \/ \A on \in BOOLEAN : Silent(a.evs, PausedEv(on))
    BY <1>1, <1>3 DEF Speech
  <2>4. ASSUME \A on \in BOOLEAN : Silent(a.evs, PausedEv(on))
        PROVE  \A on \in BOOLEAN : a.evs # <<PausedEv(on)>>
    <3>1. ASSUME NEW on \in BOOLEAN, a.evs = <<PausedEv(on)>> PROVE FALSE
      <4> DEFINE P == PausedEv(on)
      <4>1. Silent(<<P>>, P) BY <2>4, <3>1
      <4> HIDE DEF P
      <4> QED BY <4>1 DEF Silent
    <3> QED BY <3>1
  <2> QED BY <2>1, <2>2, <2>3, <2>4
<1> QED BY <1>2, <1>3

\* Emitting keeps the invariant: what the announcement promised, the event on
\* the wire promises now.
LEMMA EmitKeeps ==
  ASSUME MirrorInv, Emit
  PROVE  MirrorInv'
<1>1. PICK a \in out :
        /\ out' = out \ {a} /\ wire' = wire \o Said(a)
        /\ rows' = IF Discards(a) THEN [rows EXCEPT ![a.by].moved = FALSE] ELSE rows
        /\ UNCHANGED <<scene, due, holding, paused, writes, calls, readVars, listVars, progress,
                       pauseVars, unheard>>
  BY DEF Emit, Said, Discards
<1>2. Shapes /\ MirrorTypeOK /\ Tickets /\ Mirrored /\ Noted /\ PauseMirrored /\ RowsOk(rows)
  BY DEF MirrorInv, Shapes
<1>3. /\ scene' = scene /\ due' = due /\ holding' = holding /\ paused' = paused /\ writes' = writes
      /\ calls' = calls /\ reads' = reads /\ ticket' = ticket /\ timer' = timer /\ unheard' = unheard
      /\ view' = view /\ viewDue' = viewDue /\ viewVer' = viewVer /\ patches' = patches
      /\ progress' = progress /\ uiPaused' = uiPaused /\ hydrate' = hydrate
  BY <1>1 DEF readVars, listVars, pauseVars
<1> DEFINE said == Said(a)
<1>4. /\ said \in Seq(Event) /\ Followed(said)
      /\ Heralds(a) => Tells(said)
      /\ Tells(said) \/ \A i \in Ids : Silent(said, ProgressEv(i, FALSE))
      /\ \/ \E on \in BOOLEAN : a.evs = <<PausedEv(on)>> /\ said = <<PausedEv(on)>>
         \/ /\ \A on \in BOOLEAN : a.evs # <<PausedEv(on)>>
            /\ \A on \in BOOLEAN : Silent(said, PausedEv(on))
      /\ \A i \in Ids : a.evs = <<ProgressEv(i, TRUE)>> => said = a.evs
  BY EmitSays
<1>5. wire' = wire \o said /\ wire \in Seq(Event) BY <1>1, <1>2 DEF MirrorTypeOK
<1> HIDE DEF said
<1>6. /\ wire' \in Seq(Event)
      /\ Tells(wire') <=> Tells(wire) \/ Tells(said)
      /\ Followed(wire) => Followed(wire')
      /\ \A bad : Silent(wire, bad) /\ Silent(said, bad) => Silent(wire', bad)
      /\ \A good, bad : Stands(said, good, bad) => Stands(wire', good, bad)
      /\ \A good, bad : Stands(wire, good, bad) /\ Silent(said, bad) => Stands(wire', good, bad)
  BY <1>4, <1>5, Appended
\* Settling may take a row's bytes back; nothing else about it changes.
<1>7. /\ RowsOk(rows')
      /\ \A i \in Ids : /\ SameRow(rows'[i], rows[i]) /\ (rows'[i] = NoRow <=> rows[i] = NoRow)
                        /\ rows'[i].moved => rows[i].moved
  <2>1. CASE ~Discards(a) BY <1>1, <1>2, <2>1 DEF SameRow
  <2>2. CASE Discards(a)
    <3> DEFINE r == [rows[a.by] EXCEPT !.moved = FALSE]
    <3>1. rows[a.by].state = "cancelled" /\ rows' = [rows EXCEPT ![a.by] = r] BY <1>1, <2>2 DEF Discards
    <3>2. a.evs = SettleEv(a.by) /\ Speech(a.by, a.evs) BY <1>2, <2>2 DEF Discards, Shapes
    <3>3. a.by \in Ids BY <3>2, SettleIsNoEvent DEF Speech
    <3>4. rows[a.by] \in Row BY <1>2, <3>1, <3>3, RowFacts
    <3>5. r \in Row /\ r.state = "cancelled" /\ ~r.moved BY <3>1, <3>4 DEF Row
    <3>6. SameRow(r, rows[a.by]) BY <3>4 DEF SameRow, Row
    <3>7. r # NoRow /\ rows[a.by] # NoRow
      <4>1. NoRow.state = "none" BY DEF NoRow
      <4> QED BY <3>1, <3>5, <4>1
    <3> HIDE DEF r
    <3>8. RowsOk(rows') BY <3>1, <3>3, <3>5, TableKept
    <3>9. ASSUME NEW i \in Ids
          PROVE  /\ SameRow(rows'[i], rows[i]) /\ (rows'[i] = NoRow <=> rows[i] = NoRow)
                 /\ rows'[i].moved => rows[i].moved
      <4>1. rows'[i] = IF i = a.by THEN r ELSE rows[i] BY <1>2, <3>1 DEF RowsOk
      <4>2. CASE i = a.by BY <3>5, <3>6, <3>7, <4>1, <4>2
      <4>3. CASE i # a.by BY <4>1, <4>3 DEF SameRow
      <4> QED BY <4>2, <4>3
    <3> QED BY <3>8, <3>9
  <2> QED BY <2>1, <2>2
<1>8. Shapes'
  <2>1. \A b \in out' : b \in Announcement' BY <1>1, <1>2, <1>3 DEF MirrorTypeOK, Announcement
  <2>2. \A r \in reads' : r \in Read' /\ r.ticket <= ticket' BY <1>2, <1>3 DEF MirrorTypeOK, Read
  <2>3. rows' \in [Ids -> Row \cup {NoRow}] BY <1>7 DEF RowsOk
  <2>4. /\ scene' \in Scenes /\ view' \in [Ids -> Row \cup {NoRow}]
        /\ due' \subseteq Nat /\ viewDue' \subseteq due' /\ holding' \in Holding
        /\ paused' \in BOOLEAN
        /\ uiPaused' \in BOOLEAN /\ timer' \in BOOLEAN /\ unheard' \in BOOLEAN
        /\ writes' \in 0..scene'.writes /\ viewVer' \in 0..writes'
        /\ calls' \subseteq Call /\ ticket' \in Nat
        /\ patches' \in [Ids -> [state : State \cup {"none"}, ticket : 0..ticket']]
        /\ progress' \in [Ids -> BOOLEAN]
        /\ hydrate' \in [at : {"sent", "answered", "done"}, on : BOOLEAN, fresh : BOOLEAN]
    BY <1>2, <1>3 DEF MirrorTypeOK
  <2>5. MirrorTypeOK' BY <1>6, <2>1, <2>2, <2>3, <2>4 DEF MirrorTypeOK
  <2>6. Followed(wire') BY <1>2, <1>6 DEF Shapes
  <2>7. \A b \in out' : Speech(b.by, b.evs) BY <1>1, <1>2 DEF Shapes
  <2>8. HeldWhole'
    <3>1. \A r, s \in Row \cup {NoRow} : SameRow(r, s) => r.held = s.held /\ r.state = s.state
      BY SameIs
    <3>2. \A i \in Ids : Tame(i, rows'[i]) BY <1>2, <1>7, <3>1 DEF Tame, RowsOk
    <3> QED BY <1>3, <3>2, HoldsStay
  <2> QED BY <1>7, <2>5, <2>6, <2>7, <2>8 DEF Shapes
<1>9. Tickets' BY <1>2, <1>3 DEF Tickets
<1>10. Heralded => Heralded'
  <2>1. ASSUME NEW b \in out, Heralds(b) PROVE (b \in out' /\ Heralds(b)') \/ Tells(wire')
    <3>1. CASE b = a BY <1>4, <1>6, <2>1, <3>1
    <3>2. CASE b # a
      <4>1. b \in out' BY <1>1, <3>2
      <4>2. Heralds(b)' BY <1>7, <2>1 DEF Heralds
      <4> QED BY <4>1, <4>2
    <3> QED BY <3>1, <3>2
  <2> QED BY <1>3, <1>6, <2>1 DEF Heralded
<1>11. Tells(said) => Heralded' BY <1>6 DEF Heralded
<1>12. (\A r : Newest(r)' <=> Newest(r)) /\ (Fetching' <=> Fetching)
       /\ InWindow(rows') = InWindow(rows)
       /\ \A f : \A i \in Ids : SameRow(f[i], Window(rows)[i]) => SameRow(f[i], Window(rows')[i])
  <2>1. (\A r : Newest(r)' <=> Newest(r)) /\ (Fetching' <=> Fetching)
    BY <1>3 DEF Newest, Fetching
  <2>2. /\ InWindow(rows') = InWindow(rows)
        /\ \A i \in Ids : SameRow(Window(rows')[i], Window(rows)[i])
    BY <1>2, <1>7, WindowKept
  <2> QED BY <2>1, <2>2 DEF SameRow
<1>13. Mirrored'
  <2>1. CASE unheard \/ Heralded BY <1>3, <1>10, <2>1 DEF Mirrored
  <2>2. CASE /\ Fetching \/ Current
             /\ \A r \in reads : Newest(r) /\ r.done =>
                  \A i \in Ids : SameRow(r.list[i], Window(rows)[i])
    <3>1. Fetching' \/ Current' BY <1>3, <1>12, <2>2 DEF Current
    <3>2. \A r \in reads' : Newest(r)' /\ r.done =>
            \A i \in Ids : SameRow(r.list[i], Window(rows')[i])
      BY <1>3, <1>12, <2>2
    <3> QED BY <3>1, <3>2 DEF Mirrored
  <2> QED BY <1>2, <2>1, <2>2 DEF Mirrored
<1>14. Noted'
  <2> SUFFICES ASSUME NEW i \in InWindow(rows'), rows'[i].moved, ~unheard', ~Heralded'
               PROVE  EventSays(i)' \/ ListSays(i)'
    BY DEF Noted
  <2>7. i \in InWindow(rows) /\ i \in Ids BY <1>2, <1>12, WindowIs
  <2>1. rows[i].moved /\ ~unheard /\ ~Heralded /\ ~Tells(said) BY <1>3, <1>7, <1>10, <1>11, <2>7
  <2>2. Silent(said, ProgressEv(i, FALSE)) BY <1>4, <2>1, <2>7
  <2>3. CASE \E b \in out : b.evs = <<ProgressEv(i, TRUE)>>
    <3>1. PICK b \in out : b.evs = <<ProgressEv(i, TRUE)>> BY <2>3
    <3>2. CASE b # a BY <1>1, <3>1, <3>2 DEF EventSays
    <3>3. CASE b = a
      <4> DEFINE T == ProgressEv(i, TRUE)  F == ProgressEv(i, FALSE)
      <4>1. said = <<T>> BY <1>4, <2>7, <3>1, <3>3
      <4>2. T # F BY DEF ProgressEv
      <4> HIDE DEF T, F
      <4>3. Stands(said, T, F) BY <4>1, <4>2, OneWord
      <4>4. Stands(wire', T, F) BY <1>6, <4>3
      <4> QED BY <4>4 DEF EventSays, T, F
    <3> QED BY <3>2, <3>3
  <2>4. CASE Stands(wire, ProgressEv(i, TRUE), ProgressEv(i, FALSE))
    BY <1>6, <2>2, <2>4 DEF EventSays
  <2>5. CASE progress[i] /\ Silent(wire, ProgressEv(i, FALSE))
    BY <1>3, <1>6, <2>2, <2>5 DEF EventSays
  <2>6. CASE ListSays(i) BY <1>3, <1>12, <2>6 DEF ListSays
  <2> QED BY <1>2, <2>1, <2>3, <2>4, <2>5, <2>6, <2>7 DEF Noted, EventSays
<1>15. PauseMirrored'
  <2>1. \A b \in out', on \in BOOLEAN : b.evs = <<PausedEv(on)>> => on = paused'
    BY <1>1, <1>2, <1>3 DEF PauseMirrored
  <2>2. paused \in BOOLEAN /\ (~paused) \in BOOLEAN
    <3>1. paused \in BOOLEAN BY <1>2 DEF MirrorTypeOK
    <3> QED BY <3>1
  <2>3. CASE \E on \in BOOLEAN : a.evs = <<PausedEv(on)>> /\ said = <<PausedEv(on)>>
    <3>1. said = <<PausedEv(paused)>> BY <1>2, <2>3 DEF PauseMirrored
    <3>2. PausedEv(paused) # PausedEv(~paused) BY <2>2, PauseIsOne
    <3> DEFINE P == PausedEv(paused)  Q == PausedEv(~paused)
    <3>3. said = <<P>> /\ P # Q BY <3>1, <3>2
    <3> HIDE DEF P, Q
    <3>4. Stands(said, P, Q) BY <3>3, OneWord
    <3>5. Stands(wire', P, Q) BY <1>6, <3>4
    <3> QED BY <1>3, <2>1, <3>5 DEF PauseMirrored, P, Q
  <2>4. CASE /\ \A on \in BOOLEAN : a.evs # <<PausedEv(on)>>
             /\ \A on \in BOOLEAN : Silent(said, PausedEv(on))
    <3>1. PauseSaid => PauseSaid' BY <1>1, <2>4 DEF PauseSaid
    <3>2. Silent(said, PausedEv(~paused)) BY <2>2, <2>4
    <3>3. Shown => Shown' BY <1>3 DEF Shown
    <3> QED BY <1>2, <1>3, <1>6, <2>1, <3>1, <3>2, <3>3 DEF PauseMirrored
  <2> QED BY <1>4, <2>3, <2>4
<1> QED BY <1>8, <1>9, <1>13, <1>14, <1>15 DEF MirrorInv
-----------------------------------------------------------------------------
(* The frontend's steps.                                                   *)

\* Types, for a step that leaves the backend alone.
LEMMA FrontShapes ==
  ASSUME MirrorInv, UNCHANGED backVars, unheard' \in BOOLEAN, calls' \subseteq Call,
         wire' \in Seq(Event), Followed(wire'),
         \A r \in reads' : r \in Read /\ r.ticket <= ticket', ticket' \in Nat, timer' \in BOOLEAN,
         view' \in [Ids -> Row \cup {NoRow}], viewDue' \subseteq due, viewVer' \in 0..writes,
         patches' \in [Ids -> [state : State \cup {"none"}, ticket : 0..ticket']],
         progress' \in [Ids -> BOOLEAN], uiPaused' \in BOOLEAN,
         hydrate' \in [at : {"sent", "answered", "done"}, on : BOOLEAN, fresh : BOOLEAN]
  PROVE  Shapes'
<1>1. Shapes /\ MirrorTypeOK BY DEF MirrorInv, Shapes
<1>2. /\ scene' = scene /\ rows' = rows /\ due' = due /\ holding' = holding /\ paused' = paused
      /\ writes' = writes /\ out' = out
  BY DEF backVars
<1>3. \A a \in out' : a \in Announcement' BY <1>1, <1>2 DEF MirrorTypeOK, Announcement
<1>4. \A r \in reads' : r \in Read' /\ r.ticket <= ticket' BY <1>2 DEF Read
<1>5. /\ scene' \in Scenes /\ rows' \in [Ids -> Row \cup {NoRow}]
      /\ due' \subseteq Nat /\ viewDue' \subseteq due' /\ holding' \in Holding /\ paused' \in BOOLEAN
      /\ writes' \in 0..scene'.writes /\ viewVer' \in 0..writes'
  BY <1>1, <1>2 DEF MirrorTypeOK
<1>6. MirrorTypeOK' BY <1>3, <1>4, <1>5 DEF MirrorTypeOK
<1>7. RowsOk(rows') /\ HeldWhole' /\ \A a \in out' : Speech(a.by, a.evs)
  BY <1>1, <1>2 DEF Shapes, HeldWhole
<1> QED BY <1>6, <1>7 DEF Shapes

\* What the types say of the frontend as it is.
LEMMA FrontTypes ==
  ASSUME MirrorInv
  PROVE  /\ unheard \in BOOLEAN /\ calls \subseteq Call /\ wire \in Seq(Event) /\ Followed(wire)
         /\ \A r \in reads : r \in Read /\ r.ticket \in Nat /\ r.ver \in Nat /\ r.ticket <= ticket
         /\ ticket \in Nat /\ timer \in BOOLEAN
         /\ view \in [Ids -> Row \cup {NoRow}] /\ viewDue \subseteq due /\ viewVer \in 0..writes
         /\ patches \in [Ids -> [state : State \cup {"none"}, ticket : 0..ticket]]
         /\ progress \in [Ids -> BOOLEAN] /\ uiPaused \in BOOLEAN /\ paused \in BOOLEAN
         /\ hydrate \in [at : {"sent", "answered", "done"}, on : BOOLEAN, fresh : BOOLEAN]
         /\ rows \in [Ids -> Row \cup {NoRow}] /\ due \subseteq Nat
         /\ writes \in Nat /\ writes \in 0..scene.writes
<1>1. Shapes /\ MirrorTypeOK BY DEF MirrorInv, Shapes
<1>2. \A r \in reads : r \in Read /\ r.ticket \in Nat /\ r.ver \in Nat /\ r.ticket <= ticket
  BY <1>1 DEF MirrorTypeOK, Read
<1>3. writes \in Nat /\ scene.writes \in Nat BY <1>1, SceneAssumption DEF MirrorTypeOK
<1> QED BY <1>1, <1>2, <1>3 DEF MirrorTypeOK, Shapes

\* A new read makes everything known in the end.
LEMMA RefreshTells ==
  ASSUME MirrorInv, RefreshTransfers, UNCHANGED backVars, viewVer' = viewVer
  PROVE  /\ Tickets' /\ Mirrored' /\ Noted'
         /\ \A r \in reads' : r \in Read /\ r.ticket <= ticket'
         /\ ticket' \in Nat /\ ticket' = ticket + 1
<1> DEFINE new == [ticket |-> ticket + 1, done |-> FALSE, list |-> NoList, ver |-> 0]
<1>1. ticket' = ticket + 1 /\ reads' = reads \cup {new} BY DEF RefreshTransfers
<1>2. /\ \A r \in reads : r \in Read /\ r.ticket \in Nat /\ r.ver \in Nat /\ r.ticket <= ticket
      /\ ticket \in Nat /\ writes \in 0..scene.writes /\ writes \in Nat
  BY FrontTypes
<1>3. scene' = scene /\ writes' = writes BY DEF backVars
<1>4. new \in Read
  <2>1. NoList \in [Ids -> Row \cup {NoRow}] BY DEF NoList
  <2>2. 0 \in 0..scene.writes
    <3>1. scene.writes \in Nat BY SceneAssumption DEF MirrorInv, Shapes, MirrorTypeOK
    <3> QED BY <3>1
  <2>3. ticket + 1 \in Nat BY <1>2
  <2> QED BY <2>1, <2>2, <2>3 DEF Read
<1>5. new.ticket = ticket + 1 /\ new.done = FALSE /\ new.ver = 0 OBVIOUS
<1> HIDE DEF new
<1>6. \A r \in reads' : r.ticket = ticket' => r = new BY <1>1, <1>2
<1>7. Fetching' /\ \A r \in reads' : ~(Newest(r)' /\ r.done)
  BY <1>1, <1>5, <1>6 DEF Fetching, Newest
<1>8. Mirrored' BY <1>7 DEF Mirrored
<1>9. \A i \in Ids : ListSays(i)' BY <1>7 DEF ListSays
<1>10. Noted'
  <2>1. InWindow(rows') \subseteq Ids BY DEF InWindow, InState, OldestOf, NewestOf
  <2> QED BY <1>9, <2>1 DEF Noted
<1>11. Tickets'
  <2>1. \A r \in reads', q \in reads' : r.ticket = q.ticket => r = q
    <3>1. \A r \in reads, q \in reads : r.ticket = q.ticket => r = q BY DEF MirrorInv, Tickets
    <3>2. \A r \in reads : r.ticket # new.ticket BY <1>2, <1>5
    <3> QED BY <1>1, <3>1, <3>2
  <2>2. \A r \in reads' : r.ver <= writes'
    <3>1. \A r \in reads : r.ver <= writes BY DEF MirrorInv, Tickets
    <3> QED BY <1>1, <1>2, <1>3, <1>5, <3>1
  <2>3. \A r \in reads' : ~(r.ticket = ticket' /\ r.done) BY <1>5, <1>6
  <2> QED BY <2>1, <2>2, <2>3 DEF Tickets
<1>12. \A r \in reads' : r \in Read /\ r.ticket <= ticket' BY <1>1, <1>2, <1>4, <1>5
<1> QED BY <1>1, <1>2, <1>8, <1>10, <1>11, <1>12

\* Nothing that changes the pause.
LEMMA PauseUntouched ==
  ASSUME MirrorInv, UNCHANGED <<backVars, pauseVars>>,
         wire' = wire \/ (wire # <<>> /\ wire' = Tail(wire) /\ Head(wire).ev # "paused")
  PROVE  PauseMirrored'
<1>1. PauseMirrored /\ paused \in BOOLEAN /\ wire \in Seq(Event) BY FrontTypes DEF MirrorInv
<1>2. paused' = paused /\ out' = out /\ uiPaused' = uiPaused /\ hydrate' = hydrate
  BY DEF backVars, pauseVars
<1>3. (PauseSaid => PauseSaid') /\ (Shown => Shown') BY <1>2 DEF PauseSaid, Shown
<1>4. PausedEv(paused).ev = "paused" BY DEF PausedEv
<1>5. /\ Stands(wire, PausedEv(paused), PausedEv(~paused)) =>
           Stands(wire', PausedEv(paused), PausedEv(~paused))
      /\ Silent(wire, PausedEv(~paused)) => Silent(wire', PausedEv(~paused))
  <2>1. CASE wire' = wire BY <2>1
  <2>2. CASE wire # <<>> /\ wire' = Tail(wire) /\ Head(wire).ev # "paused"
    BY <1>1, <1>4, <2>2, Delivered
  <2> QED BY <2>1, <2>2
<1> QED BY <1>1, <1>2, <1>3, <1>5 DEF PauseMirrored

\* The table is read.
LEMMA ReadRowsKeeps ==
  ASSUME MirrorInv, ReadRows
  PROVE  MirrorInv'
<1>1. PICK r \in reads :
        /\ ~r.done
        /\ reads' = (reads \ {r})
                      \cup {[r EXCEPT !.done = TRUE, !.list = Window(rows), !.ver = writes]}
        /\ UNCHANGED <<backVars, calls, wire, ticket, timer, listVars, progress, pauseVars, unheard>>
  BY DEF ReadRows
<1> DEFINE q == [r EXCEPT !.done = TRUE, !.list = Window(rows), !.ver = writes]
<1>2. /\ Tickets /\ Mirrored /\ Noted /\ viewVer \in Nat /\ viewVer <= writes /\ writes \in Nat
      /\ \A x \in reads : x \in Read /\ x.ticket \in Nat /\ x.ver \in Nat /\ x.ticket <= ticket
      /\ ticket \in Nat /\ writes \in 0..scene.writes
      /\ InWindow(rows) \subseteq Ids /\ Window(rows) \in [Ids -> Row \cup {NoRow}]
      /\ \A i \in InWindow(rows) : Window(rows)[i] = rows[i]
  BY FrontTypes, WindowIs DEF MirrorInv, Shapes
<1>3. /\ rows' = rows /\ writes' = writes /\ out' = out /\ wire' = wire /\ ticket' = ticket
      /\ timer' = timer /\ view' = view /\ viewVer' = viewVer /\ progress' = progress
      /\ unheard' = unheard /\ UNCHANGED backVars /\ calls' = calls /\ viewDue' = viewDue
      /\ patches' = patches /\ UNCHANGED pauseVars
  BY <1>1 DEF backVars, listVars
<1>4. /\ q \in Read /\ q.ticket = r.ticket /\ q.done /\ q.list = Window(rows) /\ q.ver = writes
  BY <1>2 DEF Read
<1>5. reads' = (reads \ {r}) \cup {q} BY <1>1
<1> HIDE DEF q
<1>6. \A x \in reads' : x = q \/ (x \in reads /\ x # r /\ x.ticket # r.ticket)
  BY <1>2, <1>5 DEF Tickets
<1>7. /\ Heralded' <=> Heralded
      /\ \A i \in Ids : EventSays(i)' <=> EventSays(i)
      /\ (Current' <=> Current)
  BY <1>3 DEF Heralded, Heralds, EventSays, Current
<1>8. Fetching => Fetching'
  <2>1. ASSUME NEW x \in reads, Newest(x) PROVE Fetching'
    <3>1. CASE x = r BY <1>3, <1>4, <1>5, <2>1, <3>1 DEF Newest, Fetching
    <3>2. CASE x # r BY <1>3, <1>5, <2>1, <3>2 DEF Newest, Fetching
    <3> QED BY <3>1, <3>2
  <2> QED BY <2>1 DEF Fetching
<1>9. \A x \in reads' : Newest(x)' => x = q \/ (x \in reads /\ Newest(x))
  BY <1>3, <1>6 DEF Newest
<1>10. Shapes'
  <2>1. \A x \in reads' : x \in Read /\ x.ticket <= ticket' BY <1>2, <1>3, <1>4, <1>6
  <2> QED BY <1>3, <2>1, FrontTypes, FrontShapes DEF pauseVars
<1>11. Tickets'
  <2>1. \A x \in reads', y \in reads' : x.ticket = y.ticket => x = y BY <1>2, <1>4, <1>6 DEF Tickets
  <2>2. \A x \in reads' : x.ver <= writes' /\ (x.ticket = ticket' /\ x.done => viewVer' <= x.ver)
    BY <1>2, <1>3, <1>4, <1>6 DEF Tickets
  <2> QED BY <2>1, <2>2 DEF Tickets
<1>12. Mirrored'
  <2>1. CASE unheard \/ Heralded BY <1>3, <1>7, <2>1 DEF Mirrored
  <2>2. CASE /\ Fetching \/ Current
             /\ \A x \in reads : Newest(x) /\ x.done =>
                  \A i \in Ids : SameRow(x.list[i], Window(rows)[i])
    <3>1. Fetching' \/ Current' BY <1>7, <1>8, <2>2
    <3>2. ASSUME NEW x \in reads', Newest(x)', x.done, NEW i \in Ids
          PROVE  SameRow(x.list[i], Window(rows')[i])
      <4>1. CASE x = q BY <1>3, <1>4, <4>1 DEF SameRow
      <4>2. CASE x \in reads /\ Newest(x) BY <1>3, <2>2, <3>2, <4>2
      <4> QED BY <1>9, <3>2, <4>1, <4>2
    <3> QED BY <3>1, <3>2 DEF Mirrored
  <2> QED BY <1>2, <2>1, <2>2 DEF Mirrored
<1>13. Noted'
  <2> SUFFICES ASSUME NEW i \in InWindow(rows'), rows'[i].moved
               PROVE  unheard' \/ Heralded' \/ EventSays(i)' \/ ListSays(i)'
    BY DEF Noted
  <2>1. rows[i].moved /\ i \in InWindow(rows) /\ i \in Ids BY <1>2, <1>3
  <2>2. CASE unheard \/ Heralded \/ EventSays(i) BY <1>3, <1>7, <2>1, <2>2
  <2>3. CASE ListSays(i)
    <3>1. Fetching' \/ view'[i].moved BY <1>3, <1>8, <2>3 DEF ListSays
    <3>2. ASSUME NEW x \in reads', Newest(x)', x.done PROVE x.list[i].moved
      <4>1. CASE x = q BY <1>2, <1>4, <2>1, <4>1
      <4>2. CASE x \in reads /\ Newest(x) BY <2>3, <3>2, <4>2 DEF ListSays
      <4> QED BY <1>9, <3>2, <4>1, <4>2
    <3> QED BY <3>1, <3>2 DEF ListSays
  <2> QED BY <1>2, <2>1, <2>2, <2>3 DEF Noted
<1>14. PauseMirrored' BY <1>3, PauseUntouched
<1> QED BY <1>10, <1>11, <1>12, <1>13, <1>14 DEF MirrorInv

\* A read ends without reaching the screen, and it was not the newest.
LEMMA DroppedKeeps ==
  ASSUME MirrorInv, NEW r \in reads, r.ticket # ticket, reads' = reads \ {r},
         ticket' = ticket \/ (ticket' = 0 /\ reads' = {}),
         UNCHANGED <<backVars, calls, wire, timer, view, viewVer, progress, pauseVars, unheard>>
  PROVE  Tickets' /\ Mirrored' /\ Noted'
<1>1. /\ Tickets /\ Mirrored /\ Noted /\ viewVer \in Nat
      /\ rows' = rows /\ writes' = writes /\ out' = out /\ wire' = wire /\ timer' = timer
      /\ view' = view /\ viewVer' = viewVer /\ progress' = progress /\ unheard' = unheard
  BY FrontTypes DEF MirrorInv, backVars
<1>2. Tickets' BY <1>1 DEF Tickets
<1>3. /\ Heralded' <=> Heralded
      /\ \A i \in Ids : EventSays(i)' <=> EventSays(i)
      /\ Current' <=> Current
  BY <1>1 DEF Heralded, Heralds, EventSays, Current
<1>4. Fetching => Fetching' BY DEF Fetching, Newest
<1>5. \A x \in reads' : Newest(x)' => x \in reads /\ Newest(x) BY DEF Newest
<1>6. Mirrored'
  <2>1. CASE unheard \/ Heralded BY <1>1, <1>3, <2>1 DEF Mirrored
  <2>2. CASE /\ Fetching \/ Current
             /\ \A x \in reads : Newest(x) /\ x.done =>
                  \A i \in Ids : SameRow(x.list[i], Window(rows)[i])
    BY <1>1, <1>3, <1>4, <1>5, <2>2 DEF Mirrored
  <2> QED BY <1>1, <2>1, <2>2 DEF Mirrored
<1>7. Noted'
  <2> SUFFICES ASSUME NEW i \in InWindow(rows'), rows'[i].moved
               PROVE  unheard' \/ Heralded' \/ EventSays(i)' \/ ListSays(i)'
    BY DEF Noted
  <2>1. ListSays(i) => ListSays(i)' BY <1>1, <1>4, <1>5 DEF ListSays
  <2>2. i \in Ids /\ i \in InWindow(rows) BY <1>1, WindowIs DEF MirrorInv, Shapes
  <2> QED BY <1>1, <1>3, <2>1, <2>2 DEF Noted
<1> QED BY <1>2, <1>6, <1>7

\* The newest read lands: no patch is newer, and the list is what was read.
LEMMA LandedKeeps ==
  ASSUME MirrorInv, NEW r \in reads, r.done, r.ticket = ticket, reads' = reads \ {r},
         ticket' = ticket \/ (ticket' = 0 /\ reads' = {}),
         view' = r.list, viewVer' = r.ver,
         UNCHANGED <<backVars, calls, wire, timer, progress, pauseVars, unheard>>
  PROVE  Tickets' /\ Mirrored' /\ Noted'
<1>1. /\ Tickets /\ Mirrored /\ Noted /\ viewVer \in Nat
      /\ rows' = rows /\ writes' = writes /\ out' = out /\ wire' = wire /\ timer' = timer
      /\ progress' = progress /\ unheard' = unheard
  BY FrontTypes DEF MirrorInv, backVars
<1>2. Newest(r) BY DEF Newest
<1>3. \A x \in reads' : x.ticket # ticket' BY <1>1 DEF Tickets
<1>4. Tickets' BY <1>1, <1>3 DEF Tickets
<1>5. \A x \in reads' : ~Newest(x)' BY <1>3 DEF Newest
<1>6. /\ Heralded' <=> Heralded
      /\ \A i \in Ids : EventSays(i)' <=> EventSays(i)
  BY <1>1 DEF Heralded, Heralds, EventSays
<1>7. Mirrored'
  <2>1. CASE unheard \/ Heralded BY <1>1, <1>6, <2>1 DEF Mirrored
  <2>2. CASE \A x \in reads : Newest(x) /\ x.done =>
               \A i \in Ids : SameRow(x.list[i], Window(rows)[i])
    <3>1. Current' BY <1>1, <1>2, <2>2 DEF Current
    <3> QED BY <1>5, <3>1 DEF Mirrored
  <2> QED BY <1>1, <2>1, <2>2 DEF Mirrored
<1>8. Noted'
  <2> SUFFICES ASSUME NEW i \in InWindow(rows'), rows'[i].moved
               PROVE  unheard' \/ Heralded' \/ EventSays(i)' \/ ListSays(i)'
    BY DEF Noted
  <2>1. ListSays(i) => ListSays(i)' BY <1>2, <1>5 DEF ListSays
  <2>2. i \in Ids /\ i \in InWindow(rows) BY <1>1, WindowIs DEF MirrorInv, Shapes
  <2> QED BY <1>1, <1>6, <2>1, <2>2 DEF Noted
<1> QED BY <1>4, <1>7, <1>8

\* An answer arrives, and the list never goes back.
LEMMA LandKeeps ==
  ASSUME MirrorInv, Land
  PROVE  MirrorInv' /\ viewVer' >= viewVer
<1>1. PICK r \in reads :
        /\ r.done /\ reads' = reads \ {r}
        /\ IF Superseded(r) THEN UNCHANGED listVars
           ELSE LET kept == [i \in Ids |-> IF patches[i].ticket <= r.ticket THEN NoPatch
                                           ELSE patches[i]]
                IN /\ patches' = kept
                   /\ view' = Overlay(r.list, kept)
                   /\ viewDue' = due
                   /\ viewVer' = r.ver
        /\ ticket' = IF reads' = {} /\ patches' = [i \in Ids |-> NoPatch] THEN 0 ELSE ticket
        /\ UNCHANGED <<backVars, calls, wire, timer, progress, pauseVars, unheard>>
  BY DEF Land
<1>2. /\ \A x \in reads : x \in Read /\ x.ticket \in Nat /\ x.ver \in Nat /\ x.ticket <= ticket
      /\ ticket \in Nat /\ viewVer \in Nat /\ viewVer \in 0..writes /\ Tickets /\ writes \in Nat
      /\ patches \in [Ids -> [state : State \cup {"none"}, ticket : 0..ticket]]
      /\ view \in [Ids -> Row \cup {NoRow}] /\ viewDue \subseteq due
  BY FrontTypes DEF MirrorInv
<1>3. PauseMirrored' BY <1>1, PauseUntouched
<1>4. ticket' = ticket \/ (ticket' = 0 /\ reads' = {} /\ patches' = [i \in Ids |-> NoPatch])
  BY <1>1
<1>5. ASSUME view' \in [Ids -> Row \cup {NoRow}], viewDue' \subseteq due, viewVer' \in 0..writes,
             patches' \in [Ids -> [state : State \cup {"none"}, ticket : 0..ticket']]
      PROVE  Shapes'
  <2>1. ticket' \in Nat /\ \A x \in reads' : x \in Read /\ x.ticket <= ticket' BY <1>1, <1>2, <1>4
  <2> QED BY <1>1, <1>5, <2>1, FrontTypes, FrontShapes DEF pauseVars
<1>6. [i \in Ids |-> NoPatch] \in [Ids -> [state : State \cup {"none"}, ticket : 0..0]]
  BY DEF NoPatch
<1>7. CASE Superseded(r)
  <2>1. view' = view /\ viewDue' = viewDue /\ viewVer' = viewVer /\ patches' = patches
    BY <1>1, <1>7 DEF listVars
  <2>2. r.ticket # ticket BY <1>7 DEF Superseded
  <2>3. Tickets' /\ Mirrored' /\ Noted' BY <1>1, <1>4, <2>1, <2>2, DroppedKeeps
  <2>4. patches' \in [Ids -> [state : State \cup {"none"}, ticket : 0..ticket']]
    BY <1>2, <1>4, <1>6, <2>1
  <2>5. Shapes' BY <1>2, <1>5, <2>1, <2>4
  <2> QED BY <1>2, <1>3, <2>1, <2>3, <2>5 DEF MirrorInv
<1>8. CASE ~Superseded(r)
  <2> DEFINE kept == [i \in Ids |-> IF patches[i].ticket <= r.ticket THEN NoPatch ELSE patches[i]]
  <2>1. r.ticket = ticket BY <1>8 DEF Superseded
  <2>2. kept = [i \in Ids |-> NoPatch] BY <1>2, <2>1
  <2>3. patches' = kept /\ view' = Overlay(r.list, kept) /\ viewDue' = due /\ viewVer' = r.ver
    BY <1>1, <1>8
  <2> HIDE DEF kept
  <2>4. r.list \in [Ids -> Row \cup {NoRow}] BY <1>2 DEF Read
  <2>5. view' = r.list BY <2>2, <2>3, <2>4 DEF Overlay
  <2>6. Tickets' /\ Mirrored' /\ Noted' BY <1>1, <1>4, <2>1, <2>3, <2>5, LandedKeeps
  <2>7. viewVer' \in 0..writes /\ viewVer' >= viewVer BY <1>1, <1>2, <2>1, <2>3 DEF Tickets
  <2>8. patches' \in [Ids -> [state : State \cup {"none"}, ticket : 0..ticket']]
    <3>1. ticket' \in Nat BY <1>2, <1>4
    <3>2. NoPatch \in [state : State \cup {"none"}, ticket : 0..ticket'] BY <3>1 DEF NoPatch
    <3> QED BY <2>2, <2>3, <3>2
  <2>9. Shapes' BY <1>5, <2>3, <2>4, <2>5, <2>7, <2>8
  <2> QED BY <1>3, <2>6, <2>7, <2>9 DEF MirrorInv
<1> QED BY <1>7, <1>8

\* A read fails: if it was the newest, nothing is promised any more.
LEMMA ReadFailsKeeps ==
  ASSUME MirrorInv, ReadFails
  PROVE  MirrorInv'
<1>1. PICK r \in reads :
        /\ reads' = reads \ {r} /\ unheard' = (unheard \/ r.ticket = ticket)
        /\ UNCHANGED <<backVars, calls, wire, ticket, timer, listVars, progress, pauseVars>>
  BY DEF ReadFails
<1>2. unheard \in BOOLEAN /\ Tickets BY FrontTypes DEF MirrorInv
<1>3. PauseMirrored' BY <1>1, PauseUntouched
<1>4. view' = view /\ viewDue' = viewDue /\ viewVer' = viewVer /\ patches' = patches
  BY <1>1 DEF listVars
<1>5. Shapes'
  <2>1. unheard' \in BOOLEAN BY <1>1, <1>2
  <2>2. \A x \in reads' : x \in Read /\ x.ticket <= ticket' BY <1>1, FrontTypes
  <2> QED BY <1>1, <1>4, <2>1, <2>2, FrontTypes, FrontShapes DEF pauseVars
<1>6. CASE r.ticket = ticket
  <2>1. unheard' BY <1>1, <1>6
  <2>2. Mirrored' BY <2>1 DEF Mirrored
  <2>3. Noted' BY <2>1 DEF Noted
  <2>4. Tickets' BY <1>1, <1>2, <1>4 DEF Tickets, backVars
  <2> QED BY <1>3, <1>5, <2>2, <2>3, <2>4 DEF MirrorInv
<1>7. CASE r.ticket # ticket
  <2>1. unheard' = unheard BY <1>1, <1>2, <1>7
  <2>2. Tickets' /\ Mirrored' /\ Noted' BY <1>1, <1>4, <1>7, <2>1, DroppedKeeps
  <2> QED BY <1>3, <1>5, <2>2 DEF MirrorInv
<1> QED BY <1>6, <1>7

\* A scheduled fetch, or the deck as it mounts: nothing but a new read.
LEMMA RefreshKeeps ==
  ASSUME MirrorInv, RefreshTransfers, timer' \in BOOLEAN,
         UNCHANGED <<backVars, calls, wire, listVars, progress, pauseVars, unheard>>
  PROVE  MirrorInv' /\ viewVer' = viewVer
<1>1. view' = view /\ viewDue' = viewDue /\ viewVer' = viewVer /\ patches' = patches
  BY DEF listVars
<1>2. /\ Tickets' /\ Mirrored' /\ Noted' /\ ticket' \in Nat /\ ticket' = ticket + 1
      /\ \A r \in reads' : r \in Read /\ r.ticket <= ticket'
  BY <1>1, RefreshTells
<1>3. patches' \in [Ids -> [state : State \cup {"none"}, ticket : 0..ticket']]
  <2>1. 0..ticket \subseteq 0..ticket' BY <1>2, FrontTypes
  <2>2. \A i \in Ids : patches[i] \in [state : State \cup {"none"}, ticket : 0..ticket']
    BY <2>1, FrontTypes
  <2> QED BY <1>1, <2>2, FrontTypes
<1>4. Shapes' BY <1>1, <1>2, <1>3, FrontTypes, FrontShapes DEF pauseVars
<1>5. PauseMirrored' BY PauseUntouched
<1> QED BY <1>1, <1>2, <1>4, <1>5 DEF MirrorInv

\* A change is announced: a fetch is scheduled.
LEMMA OnChangedKeeps ==
  ASSUME MirrorInv, OnChanged
  PROVE  MirrorInv' /\ viewVer' = viewVer
<1>1. /\ wire # <<>> /\ Head(wire).ev = "changed" /\ wire' = Tail(wire) /\ timer' = TRUE
      /\ UNCHANGED <<backVars, calls, reads, ticket, listVars, progress, pauseVars, unheard>>
  BY DEF OnChanged, Receives
<1>2. wire \in Seq(Event) /\ Followed(wire) BY FrontTypes
<1>3. view' = view /\ viewDue' = viewDue /\ viewVer' = viewVer /\ patches' = patches
  BY <1>1 DEF listVars
<1>4. wire' \in Seq(Event) /\ Followed(wire') BY <1>1, <1>2, Delivered
<1>5. Shapes' BY <1>1, <1>3, <1>4, FrontTypes, FrontShapes DEF pauseVars
<1>6. Heralded' BY <1>1 DEF Heralded
<1>7. Mirrored' /\ Noted' BY <1>6 DEF Mirrored, Noted
<1>8. Tickets' BY <1>1, <1>3 DEF MirrorInv, Tickets, backVars
<1>9. PauseMirrored' BY <1>1, PauseUntouched
<1> QED BY <1>3, <1>5, <1>7, <1>8, <1>9 DEF MirrorInv

\* A state arrives: it is shown at once, and the news that follows it makes the
\* list be read again.
LEMMA OnStateKeeps ==
  ASSUME MirrorInv, OnState
  PROVE  MirrorInv' /\ viewVer' = viewVer
<1> DEFINE e == Head(wire)
<1>1. /\ wire # <<>> /\ e.ev = "state" /\ wire' = Tail(wire)
      /\ IF view[e.id] = NoRow THEN FetchNow ELSE UNCHANGED readVars
      /\ patches' = [patches EXCEPT ![e.id] = [state |-> e.val, ticket |-> ticket']]
      /\ view' = IF view[e.id] = NoRow THEN view ELSE [view EXCEPT ![e.id].state = e.val]
      /\ viewDue' = due
      /\ UNCHANGED <<backVars, calls, viewVer, progress, pauseVars, unheard>>
  BY DEF OnState, Receives
<1>2. wire \in Seq(Event) /\ Followed(wire) BY FrontTypes
<1>3. wire' \in Seq(Event) /\ Followed(wire') /\ Tells(wire') /\ e \in Event
  BY <1>1, <1>2, Delivered
<1>4. e.id \in Ids /\ e.val \in State
  <2>1. e.ev # "changed" /\ e.ev # "progress" /\ e.ev # "paused" BY <1>1
  <2> HIDE DEF e
  <2>2. e # Changed
    <3>1. Changed.ev = "changed" BY DEF Changed
    <3> QED BY <2>1, <3>1
  <2>3. \A i \in Ids, b \in BOOLEAN : e # ProgressEv(i, b) BY <2>1 DEF ProgressEv
  <2>4. \A b \in BOOLEAN : e # PausedEv(b) BY <2>1 DEF PausedEv
  <2>5. PICK i \in Ids, s \in State : e = StateEv(i, s) BY <1>3, <2>2, <2>3, <2>4 DEF Event
  <2> QED BY <2>5 DEF StateEv
<1> HIDE DEF e
<1>5. view' \in [Ids -> Row \cup {NoRow}]
  <2>1. CASE view[e.id] = NoRow BY <1>1, <2>1, FrontTypes
  <2>2. CASE view[e.id] # NoRow
    <3>1. view[e.id] \in Row BY <1>4, <2>2, FrontTypes
    <3>2. [view[e.id] EXCEPT !.state = e.val] \in Row BY <1>4, <3>1 DEF Row
    <3> QED BY <1>1, <2>2, <3>2, FrontTypes
  <2> QED BY <2>1, <2>2
<1>6. /\ ticket' \in Nat /\ ticket <= ticket' /\ timer' \in BOOLEAN /\ Tickets'
      /\ \A r \in reads' : r \in Read /\ r.ticket <= ticket'
  <2>1. CASE view[e.id] = NoRow
    <3>1. RefreshTransfers /\ timer' = FALSE BY <1>1, <2>1 DEF FetchNow
    <3>2. UNCHANGED backVars /\ viewVer' = viewVer BY <1>1
    <3>3. /\ Tickets' /\ \A r \in reads' : r \in Read /\ r.ticket <= ticket'
          /\ ticket' \in Nat /\ ticket' = ticket + 1
      BY <3>1, <3>2, RefreshTells
    <3>4. ticket \in Nat BY FrontTypes
    <3>5. ticket <= ticket' BY <3>3, <3>4
    <3>6. timer' \in BOOLEAN BY <3>1
    <3> QED BY <3>3, <3>5, <3>6
  <2>2. CASE view[e.id] # NoRow
    <3>1. UNCHANGED <<reads, ticket, timer>> BY <1>1, <2>2 DEF readVars
    <3>2. Tickets' BY <1>1, <3>1 DEF MirrorInv, Tickets, backVars
    <3> QED BY <3>1, <3>2, FrontTypes
  <2> QED BY <2>1, <2>2
<1>7. patches' \in [Ids -> [state : State \cup {"none"}, ticket : 0..ticket']]
  <2>1. 0..ticket \subseteq 0..ticket' BY <1>6, FrontTypes
  <2>2. \A i \in Ids : patches[i] \in [state : State \cup {"none"}, ticket : 0..ticket']
    BY <2>1, FrontTypes
  <2>3. [state |-> e.val, ticket |-> ticket'] \in [state : State \cup {"none"}, ticket : 0..ticket']
    BY <1>4, <1>6
  <2> QED BY <1>1, <2>2, <2>3, FrontTypes
<1>8. Shapes'
  <2>1. viewDue' \subseteq due /\ viewVer' \in 0..writes BY <1>1, FrontTypes
  <2> QED BY <1>1, <1>3, <1>5, <1>6, <1>7, <2>1, FrontTypes, FrontShapes DEF pauseVars
<1>9. Heralded' BY <1>3 DEF Heralded
<1>10. Mirrored' /\ Noted' BY <1>9 DEF Mirrored, Noted
<1>11. PauseMirrored'
  <2>1. Head(wire).ev # "paused" BY <1>1 DEF e
  <2> QED BY <1>1, <2>1, PauseUntouched
<1> QED BY <1>1, <1>6, <1>8, <1>10, <1>11 DEF MirrorInv

\* A count of bytes arrives.
LEMMA OnProgressKeeps ==
  ASSUME MirrorInv, OnProgress
  PROVE  MirrorInv' /\ viewVer' = viewVer
<1> DEFINE e == Head(wire)
<1>1. /\ wire # <<>> /\ e.ev = "progress" /\ wire' = Tail(wire)
      /\ progress' = [progress EXCEPT ![e.id] = e.val = "some"]
      /\ UNCHANGED <<backVars, calls, readVars, listVars, pauseVars, unheard>>
  BY DEF OnProgress, Receives
<1>2. wire \in Seq(Event) /\ Followed(wire) BY FrontTypes
<1>3. /\ wire' \in Seq(Event) /\ Followed(wire') /\ e \in Event
      /\ Tells(wire) => e = Changed \/ Tells(wire')
      /\ \A bad : Silent(wire, bad) => Silent(wire', bad) /\ e # bad
      /\ \A good, bad : Stands(wire, good, bad) =>
           Stands(wire', good, bad) \/ (e = good /\ Silent(wire', bad))
  BY <1>1, <1>2, Delivered
<1>4. /\ reads' = reads /\ ticket' = ticket /\ timer' = timer /\ view' = view /\ viewDue' = viewDue
      /\ viewVer' = viewVer /\ patches' = patches /\ rows' = rows /\ out' = out /\ unheard' = unheard
      /\ writes' = writes
  BY <1>1 DEF readVars, listVars, backVars
<1> HIDE DEF e
<1>5. e # Changed
  <2>1. Changed.ev = "changed" BY DEF Changed
  <2> QED BY <1>1, <2>1
<1>6. progress' \in [Ids -> BOOLEAN] BY <1>1, FrontTypes
<1>7. Shapes' BY <1>1, <1>3, <1>4, <1>6, FrontTypes, FrontShapes DEF pauseVars
<1>8. Tickets' BY <1>4 DEF MirrorInv, Tickets
<1>9. /\ Heralded => Heralded'
      /\ Fetching' <=> Fetching
      /\ \A r : Newest(r)' <=> Newest(r)
      /\ Current' <=> Current
  BY <1>3, <1>4, <1>5 DEF Heralded, Heralds, Fetching, Newest, Current
<1>10. Mirrored' BY <1>4, <1>9 DEF MirrorInv, Mirrored
<1>11. Noted'
  <2> SUFFICES ASSUME NEW i \in InWindow(rows'), rows'[i].moved, ~unheard', ~Heralded'
               PROVE  EventSays(i)' \/ ListSays(i)'
    BY DEF Noted
  <2> DEFINE T == ProgressEv(i, TRUE)  F == ProgressEv(i, FALSE)
  <2>6. i \in Ids /\ i \in InWindow(rows) BY <1>4, WindowIs DEF MirrorInv, Shapes
  <2>1. EventSays(i) \/ ListSays(i) BY <1>4, <1>9, <2>6 DEF MirrorInv, Noted
  <2>2. CASE \E a \in out : a.evs = <<T>> BY <1>4, <2>2 DEF EventSays
  <2>3. CASE Stands(wire, T, F)
    <3>1. CASE Stands(wire', T, F) BY <3>1 DEF EventSays
    <3>2. CASE e = T /\ Silent(wire', F)
      <4>1. e.id = i /\ e.val = "some" BY <3>2 DEF ProgressEv
      <4>2. progress'[i] = TRUE BY <1>1, <2>6, <4>1, FrontTypes
      <4> QED BY <3>2, <4>2 DEF EventSays
    <3> HIDE DEF T, F
    <3> QED BY <1>3, <2>3, <3>1, <3>2
  <2>4. CASE progress[i] /\ Silent(wire, F)
    <3>1. Silent(wire', F) /\ e # F
      <4> HIDE DEF F
      <4> QED BY <1>3, <2>4
    <3>2. progress'[i]
      <4>1. CASE e.id # i BY <1>1, <2>4, <2>6, <4>1, FrontTypes
      <4>2. CASE e.id = i
        <5>1. e # Changed /\ \A j \in Ids, s \in State : e # StateEv(j, s) BY <1>1, <1>5 DEF StateEv
        <5>2. \A b \in BOOLEAN : e # PausedEv(b) BY <1>1 DEF PausedEv
        <5>3. PICK j \in Ids, b \in BOOLEAN : e = ProgressEv(j, b) BY <1>3, <5>1, <5>2 DEF Event
        <5>4. j = i BY <4>2, <5>3 DEF ProgressEv
        <5>5. e.val = "some"
          <6>1. CASE b = TRUE BY <5>3, <6>1 DEF ProgressEv
          <6>2. CASE b = FALSE
            <7>1. e = F BY <5>3, <5>4, <6>2
            <7> QED BY <3>1, <7>1
          <6> QED BY <6>1, <6>2
        <5> QED BY <1>1, <2>6, <4>2, <5>5, FrontTypes
      <4> QED BY <4>1, <4>2
    <3> QED BY <3>1, <3>2 DEF EventSays
  <2>5. CASE ListSays(i) BY <1>4, <1>9, <2>5 DEF ListSays
  <2> QED BY <2>1, <2>2, <2>3, <2>4, <2>5 DEF EventSays
<1>12. PauseMirrored'
  <2>1. Head(wire).ev # "paused" BY <1>1 DEF e
  <2> QED BY <1>1, <2>1, PauseUntouched
<1> QED BY <1>4, <1>7, <1>8, <1>10, <1>11, <1>12 DEF MirrorInv

\* The pause is announced: the button shows it, and the first read no longer may.
LEMMA OnPausedKeeps ==
  ASSUME MirrorInv, OnPaused
  PROVE  MirrorInv' /\ viewVer' = viewVer
<1> DEFINE e == Head(wire)  P == PausedEv(paused)  Q == PausedEv(~paused)
<1>1. /\ wire # <<>> /\ e.ev = "paused" /\ wire' = Tail(wire)
      /\ uiPaused' = (e.val = "on") /\ hydrate' = [hydrate EXCEPT !.fresh = FALSE]
      /\ UNCHANGED <<backVars, calls, readVars, listVars, progress, unheard>>
  BY DEF OnPaused, Receives
<1>2. wire \in Seq(Event) /\ Followed(wire) /\ paused \in BOOLEAN BY FrontTypes
<1>3. /\ wire' \in Seq(Event) /\ Followed(wire') /\ e \in Event
      /\ Tells(wire) => e = Changed \/ Tells(wire')
      /\ \A bad : Silent(wire, bad) => Silent(wire', bad) /\ e # bad
      /\ \A good, bad : Stands(wire, good, bad) =>
           Stands(wire', good, bad) \/ (e = good /\ Silent(wire', bad))
  BY <1>1, <1>2, Delivered
<1>4. /\ reads' = reads /\ ticket' = ticket /\ timer' = timer /\ view' = view /\ viewDue' = viewDue
      /\ viewVer' = viewVer /\ patches' = patches /\ rows' = rows /\ out' = out /\ unheard' = unheard
      /\ writes' = writes /\ paused' = paused /\ progress' = progress
  BY <1>1 DEF readVars, listVars, backVars
<1> HIDE DEF e
<1>5. e # Changed /\ \A i \in Ids, b \in BOOLEAN : e # ProgressEv(i, b)
  <2>1. Changed.ev = "changed" BY DEF Changed
  <2>2. \A i \in Ids, b \in BOOLEAN : ProgressEv(i, b).ev = "progress" BY DEF ProgressEv
  <2> QED BY <1>1, <2>1, <2>2
<1>6. uiPaused' \in BOOLEAN
      /\ hydrate' \in [at : {"sent", "answered", "done"}, on : BOOLEAN, fresh : BOOLEAN]
      /\ hydrate'.fresh = FALSE
  BY <1>1, FrontTypes
<1>7. Shapes' BY <1>1, <1>3, <1>4, <1>6, FrontTypes, FrontShapes
<1>8. Tickets' BY <1>4 DEF MirrorInv, Tickets
<1>9. /\ Heralded => Heralded'
      /\ Fetching' <=> Fetching
      /\ \A r : Newest(r)' <=> Newest(r)
      /\ Current' <=> Current
  BY <1>3, <1>4, <1>5 DEF Heralded, Heralds, Fetching, Newest, Current
<1>10. Mirrored' BY <1>4, <1>9 DEF MirrorInv, Mirrored
<1>11. Noted'
  <2> SUFFICES ASSUME NEW i \in InWindow(rows'), rows'[i].moved, ~unheard', ~Heralded'
               PROVE  EventSays(i)' \/ ListSays(i)'
    BY DEF Noted
  <2> DEFINE T == ProgressEv(i, TRUE)  F == ProgressEv(i, FALSE)
  <2>7. i \in Ids /\ i \in InWindow(rows) BY <1>4, WindowIs DEF MirrorInv, Shapes
  <2>1. EventSays(i) \/ ListSays(i) BY <1>4, <1>9, <2>7 DEF MirrorInv, Noted
  <2>2. e # T
    <3>1. T.ev = "progress" BY DEF ProgressEv
    <3> QED BY <1>1, <3>1
  <2>3. CASE \E a \in out : a.evs = <<T>> BY <1>4, <2>3 DEF EventSays
  <2>4. CASE Stands(wire, T, F)
    <3>1. CASE Stands(wire', T, F) BY <3>1 DEF EventSays
    <3> HIDE DEF T, F
    <3> QED BY <1>3, <2>2, <2>4, <3>1
  <2>5. CASE progress[i] /\ Silent(wire, F) BY <1>3, <1>4, <2>5 DEF EventSays
  <2>6. CASE ListSays(i) BY <1>4, <1>9, <2>6 DEF ListSays
  <2> QED BY <2>1, <2>3, <2>4, <2>5, <2>6 DEF EventSays
<1>12. PauseMirrored'
  <2>1. (e = P) => (uiPaused' = paused)
    <3>1. ASSUME e = P, paused = TRUE PROVE uiPaused' = paused
      <4>1. e.val = "on" BY <3>1 DEF PausedEv
      <4> QED BY <1>1, <3>1, <4>1
    <3>2. ASSUME e = P, paused = FALSE PROVE uiPaused' = paused
      <4>1. e.val = "off" BY <3>2 DEF PausedEv
      <4> QED BY <1>1, <3>2, <4>1
    <3> QED BY <1>2, <3>1, <3>2
  <2>2. (e = P) => Shown' BY <1>4, <1>6, <2>1 DEF Shown
  <2>3. e = P \/ e = Q
    <3>1. /\ \A i \in Ids, s \in State : StateEv(i, s).ev = "state"
      BY DEF StateEv
    <3>2. \A i \in Ids, s \in State : e # StateEv(i, s) BY <1>1, <3>1
    <3>3. PICK b \in BOOLEAN : e = PausedEv(b) BY <1>3, <1>5, <3>2 DEF Event
    <3>4. b = paused \/ b = (~paused) BY <1>2
    <3> QED BY <3>3, <3>4
  <2>4. PauseMirrored BY DEF MirrorInv
  <2>5. \A a \in out', on \in BOOLEAN : a.evs = <<PausedEv(on)>> => on = paused'
    BY <1>4, <2>4 DEF PauseMirrored
  <2>6. CASE PauseSaid BY <1>4, <2>5, <2>6 DEF PauseMirrored, PauseSaid
  <2>7. CASE Stands(wire, P, Q)
    <3>1. Stands(wire', P, Q) \/ (e = P /\ Silent(wire', Q))
      <4> HIDE DEF P, Q
      <4> QED BY <1>3, <2>7
    <3> QED BY <1>4, <2>2, <2>5, <3>1 DEF PauseMirrored
  <2>8. CASE Silent(wire, Q)
    <3>1. Silent(wire', Q) /\ e # Q
      <4> HIDE DEF P, Q
      <4> QED BY <1>3, <2>8
    <3> QED BY <1>4, <2>2, <2>3, <2>5, <3>1 DEF PauseMirrored
  <2> QED BY <2>4, <2>6, <2>7, <2>8 DEF PauseMirrored
<1> QED BY <1>4, <1>7, <1>8, <1>10, <1>11, <1>12 DEF MirrorInv

\* Nothing that concerns the list.
LEMMA ListUntouched ==
  ASSUME MirrorInv, calls' \subseteq Call, uiPaused' \in BOOLEAN,
         hydrate' \in [at : {"sent", "answered", "done"}, on : BOOLEAN, fresh : BOOLEAN],
         UNCHANGED <<backVars, wire, readVars, listVars, progress, unheard>>,
         PauseMirrored'
  PROVE  MirrorInv' /\ viewVer' = viewVer
<1>1. /\ reads' = reads /\ ticket' = ticket /\ timer' = timer /\ view' = view /\ viewDue' = viewDue
      /\ viewVer' = viewVer /\ patches' = patches /\ rows' = rows /\ out' = out /\ unheard' = unheard
      /\ writes' = writes /\ paused' = paused /\ progress' = progress /\ wire' = wire
  BY DEF readVars, listVars, backVars
<1>2. Shapes' BY <1>1, FrontTypes, FrontShapes
<1>3. Tickets' BY <1>1 DEF MirrorInv, Tickets
<1>4. Mirrored' BY <1>1 DEF MirrorInv, Mirrored, Heralded, Heralds, Fetching, Newest, Current
<1>5. Noted'
  <2>1. Heralded' <=> Heralded BY <1>1 DEF Heralded, Heralds
  <2>2. \A i \in Ids : EventSays(i)' <=> EventSays(i) BY <1>1 DEF EventSays
  <2>3. \A i \in Ids : ListSays(i)' <=> ListSays(i) BY <1>1 DEF ListSays, Fetching, Newest
  <2>4. InWindow(rows) \subseteq Ids BY WindowIs DEF MirrorInv, Shapes
  <2> QED BY <1>1, <2>1, <2>2, <2>3, <2>4 DEF MirrorInv, Noted
<1> QED BY <1>1, <1>2, <1>3, <1>4, <1>5 DEF MirrorInv

\* The first read of the pause: asked, and answered.
LEMMA HydrateKeeps ==
  ASSUME MirrorInv, QueryPause \/ HydratePause
  PROVE  MirrorInv' /\ viewVer' = viewVer
<1>1. /\ calls \subseteq Call /\ uiPaused \in BOOLEAN /\ paused \in BOOLEAN
      /\ hydrate \in [at : {"sent", "answered", "done"}, on : BOOLEAN, fresh : BOOLEAN]
      /\ PauseMirrored
  BY FrontTypes DEF MirrorInv
<1>2. /\ UNCHANGED <<backVars, calls, wire, readVars, listVars, progress, unheard>>
      /\ out' = out /\ paused' = paused /\ wire' = wire
  BY DEF QueryPause, HydratePause, backVars
<1>3. /\ uiPaused' \in BOOLEAN
      /\ hydrate' \in [at : {"sent", "answered", "done"}, on : BOOLEAN, fresh : BOOLEAN]
  <2>1. CASE QueryPause BY <1>1, <2>1 DEF QueryPause
  <2>2. CASE HydratePause BY <1>1, <2>2 DEF HydratePause
  <2> QED BY <2>1, <2>2
<1>4. Shown => Shown'
  <2>1. CASE QueryPause
    <3>1. hydrate.at = "sent" /\ hydrate' = [hydrate EXCEPT !.at = "answered", !.on = paused]
          /\ uiPaused' = uiPaused
      BY <2>1 DEF QueryPause
    <3>2. hydrate'.at = "answered" /\ hydrate'.on = paused /\ hydrate'.fresh = hydrate.fresh
      BY <1>1, <3>1
    <3> QED BY <1>2, <3>1, <3>2 DEF Shown
  <2>2. CASE HydratePause
    <3>1. hydrate.at = "answered" /\ hydrate' = [hydrate EXCEPT !.at = "done"]
          /\ uiPaused' = IF hydrate.fresh THEN hydrate.on ELSE uiPaused
      BY <2>2 DEF HydratePause
    <3>2. hydrate'.at = "done" /\ hydrate'.fresh = hydrate.fresh BY <1>1, <3>1
    <3>3. CASE hydrate.fresh BY <1>2, <3>1, <3>2, <3>3 DEF Shown
    <3>4. CASE ~hydrate.fresh BY <1>2, <3>1, <3>2, <3>4 DEF Shown
    <3> QED BY <3>3, <3>4
  <2> QED BY <2>1, <2>2
<1>5. PauseMirrored' BY <1>1, <1>2, <1>4 DEF PauseMirrored, PauseSaid
<1> QED BY <1>1, <1>2, <1>3, <1>5, ListUntouched
-----------------------------------------------------------------------------
(* The dock, and all steps together.                                       *)

DockInv ==
  /\ selected \subseteq Ids /\ anchor \in Ids \cup {0}
  /\ confirm \in [op : Op, ids : SUBSET Ids]
  /\ suppressed \subseteq Silenceable /\ reply \in BOOLEAN
  /\ viewMode \in {"browse", "flight", "deck", "timeline"}
  /\ viewMode = "flight" => FlightAvailable(view)

IInv == MirrorInv /\ DockInv

\* Every operator named here asks about lists of this shape.
LEMMA Views ==
  ASSUME MirrorInv
  PROVE  Listed(view) \subseteq Ids /\ Cancellable(view) \subseteq Ids /\ Waiting(view) \subseteq Ids
         /\ HeldRows(view) \subseteq Ids /\ \A S : InState(view, S) \subseteq Ids
BY DEF Listed, Cancellable, Waiting, HeldRows, InState

\* The invariant holds at the launch, and of a frontend that has settled.
LEMMA InitIInv == Init => IInv
<1> SUFFICES ASSUME Init PROVE IInv OBVIOUS
<1>1. /\ scene \in Scenes /\ rows = scene.rows
      /\ due = {} /\ holding = [due |-> {}, late |-> LateHeld(rows)] /\ paused \in BOOLEAN /\ writes = 0
      /\ calls = {} /\ out = {} /\ wire = <<>>
      /\ timer = FALSE /\ viewVer = 0 /\ patches = [i \in Ids |-> NoPatch]
      /\ progress = [i \in Ids |-> FALSE]
      /\ unheard = FALSE
      /\ IF scene.launch THEN Launch ELSE Settled
  BY DEF Init
<1>2. RowsOk(rows) /\ scene.writes \in Nat
  <2>1. rows \in [Ids -> Row \cup {NoRow}] /\ InState(rows, {"dispatched"}) = {} /\ scene.writes \in Nat
    BY <1>1, SceneAssumption
  <2> QED BY <2>1 DEF RowsOk, InState
<1>3. NoList \in [Ids -> Row \cup {NoRow}] BY DEF NoList
<1>4. /\ view \in [Ids -> Row \cup {NoRow}] /\ viewDue = {} /\ uiPaused \in BOOLEAN
      /\ ticket \in Nat /\ hydrate \in [at : {"sent", "answered", "done"}, on : BOOLEAN, fresh : BOOLEAN]
      /\ \A r \in reads : r \in Read /\ r.ticket = ticket /\ ~r.done /\ r.ver = 0
      /\ \A r \in reads, q \in reads : r = q
      /\ reads # {} \/ view = Window(rows)
      /\ Shown
  <2>1. CASE scene.launch
    <3> DEFINE r == [ticket |-> 1, done |-> FALSE, list |-> NoList, ver |-> 0]
    <3>1. /\ view = NoList /\ viewDue = {} /\ uiPaused = FALSE /\ reads = {r} /\ ticket = 1
          /\ hydrate = [at |-> "sent", on |-> FALSE, fresh |-> TRUE]
      BY <1>1, <2>1 DEF Launch
    <3>2. r \in Read
      <4>1. 0 \in 0..scene.writes /\ 1 \in Nat BY <1>2
      <4> QED BY <1>3, <4>1 DEF Read
    <3>3. r.ticket = 1 /\ ~r.done /\ r.ver = 0 OBVIOUS
    <3>4. hydrate \in [at : {"sent", "answered", "done"}, on : BOOLEAN, fresh : BOOLEAN] BY <3>1
    <3>5. Shown BY <3>1 DEF Shown
    <3> HIDE DEF r
    <3> QED BY <1>3, <3>1, <3>2, <3>3, <3>4, <3>5
  <2>2. CASE ~scene.launch
    <3>1. /\ view = Window(rows) /\ viewDue = due /\ uiPaused = paused /\ reads = {} /\ ticket = 0
          /\ hydrate = [at |-> "done", on |-> FALSE, fresh |-> FALSE]
      BY <1>1, <2>2 DEF Settled
    <3>2. hydrate \in [at : {"sent", "answered", "done"}, on : BOOLEAN, fresh : BOOLEAN] BY <3>1
    <3>3. Shown BY <3>1 DEF Shown
    <3> QED BY <1>1, <1>2, <3>1, <3>2, <3>3, WindowIs
  <2> QED BY <2>1, <2>2
<1>5. MirrorTypeOK
  <2>1. writes \in 0..scene.writes /\ viewVer \in 0..writes BY <1>1, <1>2
  <2>2. patches \in [Ids -> [state : State \cup {"none"}, ticket : 0..ticket]]
    <3>1. 0 \in 0..ticket BY <1>4
    <3>2. NoPatch \in [state : State \cup {"none"}, ticket : 0..ticket] BY <3>1 DEF NoPatch
    <3> QED BY <1>1, <3>2
  <2>3. progress \in [Ids -> BOOLEAN]
    <3>1. [i \in Ids |-> FALSE] \in [Ids -> BOOLEAN] OBVIOUS
    <3> QED BY <1>1, <3>1
  <2>4. \A r \in reads : r \in Read /\ r.ticket <= ticket BY <1>4
  <2>5. wire \in Seq(Event) BY <1>1
  <2>6. rows \in [Ids -> Row \cup {NoRow}] BY <1>2 DEF RowsOk
  <2>7. timer \in BOOLEAN /\ unheard \in BOOLEAN BY <1>1
  <2>8. due \subseteq Nat /\ viewDue \subseteq due /\ calls \subseteq Call
        /\ \A a \in out : a \in Announcement
    BY <1>1, <1>4
  <2>9. holding \in Holding BY <1>1 DEF Holding, LateHeld, HeldRows
  <2> QED BY <1>1, <1>4, <2>1, <2>2, <2>3, <2>4, <2>5, <2>6, <2>7, <2>8, <2>9 DEF MirrorTypeOK
<1>13. HeldWhole BY <1>1 DEF HeldWhole, LateHeld, HeldRows
<1>6. Shapes BY <1>1, <1>2, <1>5, <1>13, NothingSaid DEF Shapes
<1>7. Tickets BY <1>1, <1>4 DEF Tickets
<1>8. Fetching \/ view = Window(rows) BY <1>4 DEF Fetching, Newest
<1>9. Mirrored
  <2>1. view = Window(rows) => Current BY DEF Current, SameRow
  <2> QED BY <1>4, <1>8, <2>1 DEF Mirrored
<1>10. Noted
  <2>1. \A i \in InWindow(rows) : rows[i].moved => ListSays(i)
    BY <1>2, <1>4, <1>8, WindowIs DEF ListSays
  <2> QED BY <2>1 DEF Noted
<1>11. PauseMirrored BY <1>1, <1>4, NothingSaid DEF PauseMirrored
<1>12. DockInv
  <2>1. /\ selected = {} /\ anchor = 0 /\ confirm = NoDialog /\ suppressed = {} /\ reply = FALSE
        /\ viewMode = "browse"
    BY DEF Init
  <2>2. NoDialog \in [op : Op, ids : SUBSET Ids] BY DEF NoDialog, Op
  <2> QED BY <2>1, <2>2 DEF DockInv
<1> QED BY <1>6, <1>7, <1>9, <1>10, <1>11, <1>12 DEF IInv, MirrorInv

\* The backend's steps and the answers of the frontend: the dock follows the list.
LEMMA EffectsKeep ==
  ASSUME IInv, Effects, UNCHANGED <<anchor, confirm, suppressed>>, reply' \in BOOLEAN
  PROVE  DockInv'
<1>1. DockInv BY DEF IInv
<1>2. selected' \subseteq Ids /\ viewMode' \in {"browse", "flight", "deck", "timeline"}
  BY <1>1 DEF DockInv, Effects
<1>3. viewMode' = "flight" => FlightAvailable(view') BY <1>1 DEF DockInv, Effects
<1>4. FlightAvailable(view') <=> FlightAvailable(view)' BY DEF FlightAvailable, Listed, InState
<1> QED BY <1>1, <1>2, <1>3, <1>4 DEF DockInv

\* No step of the backend or of the mirror makes a call, and none rewinds the list.
LEMMA BackendKeeps ==
  ASSUME IInv, Backend
  PROVE  IInv' /\ viewVer' = viewVer /\ calls' \subseteq calls
<1>1. MirrorInv /\ reply \in BOOLEAN /\ scene.asks \in BOOLEAN
  BY SceneAssumption DEF IInv, DockInv, MirrorInv, Shapes, MirrorTypeOK
<1>2. Wrote \/ Emit
  <2>1. ASSUME NEW i \in Ids,
               Claim(i) \/ Complete(i) \/ Fail(i) \/ ScheduleRetry(i) \/ Restart(i) \/ Requeue(i)
        PROVE  Wrote
    BY <1>1, <2>1, RunnersWrite
  <2>2. ASSUME NEW i \in Ids, \/ Progress(i) \/ Sweep(i) \/ EnqueueAgain(i) \/ Hold(i) \/ HoldFails(i)
                               \/ DeadlinePasses(i)
        PROVE  Wrote
    BY <1>1, <2>2, OthersWrite
  <2>3. ASSUME NEW i \in Ids, NEW ask \in {FALSE, scene.asks}, Enqueue(i, ask) PROVE Wrote
    BY <1>1, <2>3, OthersWrite
  <2>4. ASSUME Exec PROVE Wrote BY <1>1, <2>4, CallsWrite
  <2> QED BY <2>1, <2>2, <2>3, <2>4 DEF Backend, ExecCall, Quietly, Mirror
<1>3. Effects /\ UNCHANGED <<anchor, confirm, suppressed>> /\ reply' \in BOOLEAN
  <2>1. CASE ExecCall BY <1>1, <2>1 DEF ExecCall, Mirror
  <2>2. CASE ~ExecCall BY <1>1, <2>2 DEF Backend, Quietly, Mirror
  <2> QED BY <2>1, <2>2
<1>4. DockInv' BY <1>3, EffectsKeep
<1>5. MirrorInv' BY <1>1, <1>2, WroteKeeps, EmitKeeps
<1>6. viewVer' = viewVer /\ calls' \subseteq calls BY <1>2 DEF Wrote, Emit, listVars
<1> QED BY <1>4, <1>5, <1>6 DEF IInv

\* The frontend's own steps.
LEMMA FrontendKeeps ==
  ASSUME IInv, Frontend
  PROVE  IInv' /\ viewVer' >= viewVer /\ calls' = calls
<1>1. MirrorInv /\ reply \in BOOLEAN /\ viewVer \in Nat /\ viewVer >= viewVer
  <2>1. viewVer \in Nat BY FrontTypes DEF IInv
  <2> QED BY <2>1 DEF IInv, DockInv
<1>2. CASE ReplyArrives
  <2>1. UNCHANGED mirrorVars /\ selected' = {} /\ reply' = FALSE
        /\ UNCHANGED <<anchor, confirm, suppressed, viewMode>>
    BY <1>2 DEF ReplyArrives, NoCall
  <2>2. UNCHANGED <<backVars, calls, wire, readVars, listVars, progress, pauseVars, unheard>>
    BY <2>1 DEF mirrorVars, backVars, readVars, listVars, pauseVars
  <2>3. PauseMirrored' BY <1>1, <2>2, PauseUntouched
  <2>4. MirrorInv' /\ viewVer' = viewVer
    BY <1>1, <2>2, <2>3, FrontTypes, ListUntouched DEF pauseVars
  <2>5. DockInv' BY <2>1, <2>2 DEF IInv, DockInv, listVars, FlightAvailable, Listed, InState
  <2> QED BY <1>1, <2>2, <2>4, <2>5 DEF IInv
<1>3. ASSUME ~ReplyArrives PROVE IInv' /\ viewVer' >= viewVer /\ calls' = calls
  <2>1. /\ Effects /\ UNCHANGED <<anchor, confirm, suppressed>> /\ reply' = reply
        /\ \/ ReadRows \/ Land \/ ReadFails \/ TimerFires
           \/ OnChanged \/ OnState \/ OnProgress \/ OnPaused \/ QueryPause \/ HydratePause
    BY <1>3 DEF Frontend, Quietly, Mirror
  <2>2. MirrorInv' /\ viewVer' >= viewVer
    <3>1. CASE ReadRows BY <1>1, <3>1, ReadRowsKeeps DEF ReadRows, listVars
    <3>2. CASE Land BY <1>1, <3>2, LandKeeps
    <3>3. CASE ReadFails BY <1>1, <3>3, ReadFailsKeeps DEF ReadFails, listVars
    <3>4. CASE TimerFires
      <4>1. /\ RefreshTransfers /\ timer' = FALSE
            /\ UNCHANGED <<backVars, calls, wire, listVars, progress, pauseVars, unheard>>
        BY <3>4 DEF TimerFires, FetchNow
      <4>2. timer' \in BOOLEAN BY <4>1
      <4> QED BY <1>1, <4>1, <4>2, RefreshKeeps
    <3>5. CASE OnChanged BY <1>1, <3>5, OnChangedKeeps
    <3>6. CASE OnState BY <1>1, <3>6, OnStateKeeps
    <3>7. CASE OnProgress BY <1>1, <3>7, OnProgressKeeps
    <3>8. CASE OnPaused BY <1>1, <3>8, OnPausedKeeps
    <3>9. CASE QueryPause \/ HydratePause BY <1>1, <3>9, HydrateKeeps
    <3> QED BY <2>1, <3>1, <3>2, <3>3, <3>4, <3>5, <3>6, <3>7, <3>8, <3>9
  <2>3. calls' = calls
    <3>1. CASE ReadRows \/ Land \/ ReadFails \/ TimerFires \/ OnChanged
      BY <3>1 DEF ReadRows, Land, ReadFails, TimerFires, OnChanged
    <3>2. CASE OnState \/ OnProgress \/ OnPaused \/ QueryPause \/ HydratePause
      BY <3>2 DEF OnState, OnProgress, OnPaused, QueryPause, HydratePause
    <3> QED BY <2>1, <3>1, <3>2
  <2>4. DockInv' BY <1>1, <2>1, EffectsKeep
  <2> QED BY <2>2, <2>3, <2>4 DEF IInv
<1> QED BY <1>2, <1>3

\* A step that leaves the mirror alone but for a call it makes.
LEMMA SentKeeps ==
  ASSUME MirrorInv, NEW op \in Op, NEW ids \in SUBSET Ids, NEW on \in BOOLEAN, Send(op, ids, on)
  PROVE  /\ MirrorInv' /\ view' = view /\ viewVer' = viewVer
         /\ \A c \in calls' \ calls : c.op = op /\ c.ids = ids
<1>1. /\ calls' = calls \cup {[op |-> op, ids |-> ids, on |-> on]}
      /\ UNCHANGED <<backVars, wire, readVars, listVars, progress, pauseVars, unheard>>
  BY DEF Send
<1>2. calls' \subseteq Call BY <1>1, FrontTypes DEF Call
<1>3. PauseMirrored' BY <1>1, PauseUntouched
<1> QED BY <1>1, <1>2, <1>3, FrontTypes, ListUntouched DEF pauseVars, listVars

\* A button without a call of its own leaves rows, events and list as they are.
LEMMA IdleKeeps ==
  ASSUME MirrorInv, NoCall
  PROVE  MirrorInv' /\ view' = view /\ viewVer' = viewVer /\ calls' = calls
<1>1. UNCHANGED <<backVars, calls, wire, readVars, listVars, progress, pauseVars, unheard>>
  BY DEF NoCall, mirrorVars, backVars, readVars, listVars, pauseVars
<1>2. PauseMirrored' BY <1>1, PauseUntouched
<1> QED BY <1>1, <1>2, FrontTypes, ListUntouched DEF pauseVars, listVars

\* What a click may do: a call of its own, a question, or neither.
Clicked ==
  /\ MirrorInv' /\ view' = view /\ viewVer' = viewVer
  /\ confirm' \in [op : Op, ids : SUBSET Ids]

\* The calls a click makes destroy no bytes the screen could have known of.
Harmless ==
  \A c \in calls' \ calls :
    Quiet /\ ~unheard /\ confirm = NoDialog /\ c.op \notin suppressed
      => Doomed(c) \subseteq OutOfSight(c)

\* When nothing is under way, the list is right and every byte is known of.
LEMMA QuietKnows ==
  ASSUME MirrorInv, Quiet, ~unheard
  PROVE  Current /\ \A i \in InWindow(rows) : rows[i].moved => HasData(i)
<1>1. out = {} /\ wire = <<>> /\ reads = {} /\ ~timer BY DEF Quiet
<1>2. ~Heralded BY <1>1, NothingSaid DEF Heralded
<1>3. ~Fetching BY <1>1 DEF Fetching
<1>4. Current BY <1>2, <1>3 DEF MirrorInv, Mirrored
<1>5. ASSUME NEW i \in InWindow(rows), rows[i].moved PROVE HasData(i)
  <2>1. EventSays(i) \/ ListSays(i) BY <1>2, <1>5 DEF MirrorInv, Noted
  <2>2. EventSays(i) => progress[i] BY <1>1, NothingSaid DEF EventSays
  <2>3. ListSays(i) => view[i].moved BY <1>3 DEF ListSays
  <2> QED BY <2>1, <2>2, <2>3 DEF HasData
<1> QED BY <1>4, <1>5

\* A list that is current has the rows of the window and no other.
LEMMA SameFields ==
  ASSUME MirrorInv, Current
  PROVE  /\ InWindow(rows) \subseteq Ids
         /\ \A i \in InWindow(rows) : /\ view[i].state = rows[i].state
                                      /\ view[i].held = rows[i].held
                                      /\ view[i].retry = rows[i].retry
         /\ \A i \in Ids \ InWindow(rows) : view[i] = NoRow
<1>1. /\ InWindow(rows) \subseteq Ids /\ Window(rows) \in [Ids -> Row \cup {NoRow}]
      /\ \A i \in InWindow(rows) : Window(rows)[i] = rows[i]
      /\ \A i \in Ids : i \notin InWindow(rows) => Window(rows)[i] = NoRow
      /\ view \in [Ids -> Row \cup {NoRow}]
  BY FrontTypes, WindowIs DEF MirrorInv, Shapes
<1>2. \A i \in Ids : /\ view[i].state = Window(rows)[i].state
                     /\ view[i].held = Window(rows)[i].held
                     /\ view[i].retry = Window(rows)[i].retry
  BY <1>1, SameIs DEF Current
<1>3. ASSUME NEW i \in Ids \ InWindow(rows) PROVE view[i] = NoRow
  <2>1. view[i].state = "none" BY <1>1, <1>2 DEF NoRow
  <2> QED BY <1>1, <2>1 DEF Row, State
<1> QED BY <1>1, <1>2, <1>3

\* A call made on the spot.
LEMMA Straights ==
  ASSUME IInv, NEW op \in Op, NEW ids \in SUBSET Ids, NEW on \in BOOLEAN, Straight(op, ids, on)
  PROVE  Clicked /\ \A c \in calls' \ calls : c.op = op /\ c.ids = ids
BY SentKeeps DEF Straight, Clicked, IInv, DockInv

\* A question, or the call at once where its warning was silenced.
LEMMA Questions ==
  ASSUME IInv, NEW op \in Op, NEW ids \in SUBSET Ids, AskConfirm(op, ids)
  PROVE  Clicked /\ \A c \in calls' \ calls : c.op \in suppressed
<1>1. FALSE \in BOOLEAN OBVIOUS
<1>2. CASE op \in suppressed
  <2>1. Send(op, ids, FALSE) /\ confirm' = confirm BY <1>2 DEF AskConfirm
  <2> QED BY <1>1, <1>2, <2>1, SentKeeps DEF Clicked, IInv, DockInv
<1>3. CASE op \notin suppressed
  <2>1. NoCall /\ confirm' = [op |-> op, ids |-> ids] BY <1>3 DEF AskConfirm
  <2> QED BY <2>1, IdleKeeps DEF Clicked, IInv
<1> QED BY <1>2, <1>3

Buttons ==
  \/ TogglePause \/ CancelSelected \/ CancelQueued \/ RetryAll \/ ClearFailed \/ ClearDone
  \/ \E action \in {"overwrite", "skip", "rename"} : ResolveAll(action)
  \/ \E i \in Ids : \/ PauseRow(i) \/ ResumeRow(i) \/ ConfirmCancel(i)
                    \/ \E action \in {"overwrite", "skip", "rename"} : ResolveOne(i, action)

\* The buttons that make calls: those that may destroy ask, or have looked
\* whether there is anything to destroy.
LEMMA ButtonsKeep ==
  ASSUME IInv, Buttons
  PROVE  Clicked /\ Harmless /\ Frame
<1>1. MirrorInv /\ DockInv /\ uiPaused \in BOOLEAN
  <2>1. MirrorInv BY DEF IInv
  <2> QED BY <2>1, FrontTypes DEF IInv
<1>2. /\ Cancellable(view) \subseteq Ids /\ Waiting(view) \subseteq Ids
      /\ HeldRows(view) \subseteq Ids /\ InState(view, {"failed"}) \subseteq Ids /\ {} \subseteq Ids
  BY <1>1, Views
<1>3. /\ {"pause", "resume", "cancel", "cancelMany", "cancelQueued", "retryFailed", "clearDone",
          "clearFailed", "overwrite", "rename", "skip", "setPaused"} \subseteq Op
      /\ FALSE \in BOOLEAN /\ (~uiPaused) \in BOOLEAN
  <2>1. (~uiPaused) \in BOOLEAN BY <1>1
  <2> QED BY <2>1 DEF Op
\* A question destroys nothing, nor does a call that only stops or starts rows.
<1>4. ASSUME \A c \in calls' \ calls : c.op \in suppressed PROVE Harmless
  BY <1>4 DEF Harmless
<1>5. ASSUME \A c \in calls' \ calls :
               c.op \in {"pause", "resume", "retryFailed", "overwrite", "rename", "setPaused"}
      PROVE  Harmless
  <2>1. ASSUME NEW c \in calls' \ calls PROVE Doomed(c) = {} BY <1>5, <2>1 DEF Doomed
  <2> QED BY <2>1 DEF Harmless
\* Skip finds nothing to lose in a row that was held before it ran.
<1>18. ASSUME \A c \in calls' \ calls : c.op = "skip" PROVE Harmless
  <2>1. ASSUME NEW c \in calls' \ calls, NEW i \in Doomed(c) PROVE i \in OutOfSight(c)
    <3>1. c.op = "skip" /\ i \in Ids /\ rows[i].moved /\ i \in HeldRows(rows)
      BY <1>18, <2>1 DEF Doomed
    <3>2. i \in holding.late BY <1>1, <3>1 DEF MirrorInv, Shapes, HeldWhole, HeldRows
    <3> QED BY <3>1, <3>2 DEF OutOfSight
  <2> QED BY <2>1 DEF Harmless
<1>6. ASSUME NEW ids \in SUBSET Listed(view), \A i \in ids : ~HasData(i),
             \A c \in calls' \ calls : c.op \in {"cancel", "cancelMany"} /\ c.ids = ids
      PROVE  Harmless
  <2>1. ASSUME NEW c \in calls' \ calls, Quiet, ~unheard, NEW i \in Doomed(c) PROVE FALSE
    <3>1. i \in Ids /\ rows[i].moved /\ i \in ids /\ view[i] # NoRow
      BY <1>6, <2>1 DEF Doomed, Listed
    <3>2. Current BY <1>1, <2>1, QuietKnows
    <3>3. i \in InWindow(rows) BY <1>1, <3>1, <3>2, SameFields
    <3>4. HasData(i) BY <1>1, <2>1, <3>1, <3>3, QuietKnows
    <3> QED BY <1>6, <3>1, <3>4
  <2> QED BY <2>1 DEF Harmless
<1>7. CASE TogglePause
  <2>1. Straight("setPaused", {}, ~uiPaused) /\ Frame BY <1>7 DEF TogglePause
  <2> QED BY <1>2, <1>3, <1>5, <2>1, Straights
<1>8. CASE CancelSelected
  <2> DEFINE ids == selected \cap Cancellable(view)
  <2>1. /\ IF \E i \in ids : HasData(i) THEN AskConfirm("cancelMany", ids)
           ELSE Straight("cancelMany", ids, FALSE)
        /\ Frame
    BY <1>8 DEF CancelSelected
  <2>2. ids \in SUBSET Ids /\ ids \in SUBSET Listed(view) BY <1>2 DEF Cancellable
  <2> HIDE DEF ids
  <2>3. CASE \E i \in ids : HasData(i) BY <1>3, <1>4, <2>1, <2>2, <2>3, Questions
  <2>4. CASE ~\E i \in ids : HasData(i) BY <1>3, <1>6, <2>1, <2>2, <2>4, Straights
  <2> QED BY <2>3, <2>4
<1>9. CASE CancelQueued
  <2>1. confirm' = [op |-> "cancelQueued", ids |-> Waiting(view)] /\ NoCall /\ Frame
    BY <1>9 DEF CancelQueued
  <2>2. confirm' \in [op : Op, ids : SUBSET Ids] BY <1>2, <1>3, <2>1
  <2> QED BY <1>1, <1>4, <2>1, <2>2, IdleKeeps DEF Clicked
<1>10. CASE RetryAll
  <2>1. Straight("retryFailed", {}, FALSE) /\ Frame BY <1>10 DEF RetryAll
  <2> QED BY <1>2, <1>3, <1>5, <2>1, Straights
<1>11. CASE ClearFailed
  <2>1. AskConfirm("clearFailed", InState(view, {"failed"})) /\ Frame BY <1>11 DEF ClearFailed
  <2> QED BY <1>2, <1>3, <1>4, <2>1, Questions
<1>12. CASE ClearDone
  <2>1. /\ IF InState(view, {"cancelled"}) # {} THEN AskConfirm("clearDone", {})
           ELSE Straight("clearDone", {}, FALSE)
        /\ Frame
    BY <1>12 DEF ClearDone
  <2>2. CASE InState(view, {"cancelled"}) # {} BY <1>2, <1>3, <1>4, <2>1, <2>2, Questions
  <2>3. CASE InState(view, {"cancelled"}) = {}
    <3>1. Clicked /\ \A c \in calls' \ calls : c.op = "clearDone"
      BY <1>2, <1>3, <2>1, <2>3, Straights
    <3>2. ASSUME NEW c \in calls' \ calls, Quiet, ~unheard, NEW i \in Doomed(c)
          PROVE  i \in OutOfSight(c)
      <4>1. c.op = "clearDone" /\ i \in Ids /\ rows[i].state = "cancelled"
        BY <3>1, <3>2 DEF Doomed
      <4>2. Current BY <1>1, <3>2, QuietKnows
      <4>3. view[i].state # "cancelled" BY <2>3, <4>1 DEF InState
      <4>4. view[i] = NoRow BY <1>1, <4>1, <4>2, <4>3, SameFields
      <4> QED BY <4>1, <4>4 DEF OutOfSight
    <3> QED BY <2>1, <3>1, <3>2 DEF Harmless
  <2> QED BY <2>2, <2>3
<1>13. ASSUME NEW action \in {"overwrite", "skip", "rename"}, ResolveAll(action)
       PROVE  Clicked /\ Harmless /\ Frame
  <2>1. /\ IF action = "overwrite" THEN AskConfirm("overwrite", HeldRows(view))
           ELSE Straight(action, HeldRows(view), FALSE)
        /\ Frame
    BY <1>13 DEF ResolveAll
  <2>2. CASE action = "overwrite" BY <1>2, <1>3, <1>4, <2>1, <2>2, Questions
  <2>3. CASE action # "overwrite"
    <3>1. Clicked /\ \A c \in calls' \ calls : c.op = action
      BY <1>2, <1>3, <2>1, <2>3, Straights
    <3> QED BY <1>5, <1>18, <2>1, <3>1
  <2> QED BY <2>2, <2>3
<1>14. ASSUME NEW i \in Ids, PauseRow(i) PROVE Clicked /\ Harmless /\ Frame
  <2>1. Straight("pause", {i}, FALSE) /\ Frame /\ {i} \in SUBSET Ids BY <1>14 DEF PauseRow
  <2> QED BY <1>3, <1>5, <2>1, Straights
<1>15. ASSUME NEW i \in Ids, ResumeRow(i) PROVE Clicked /\ Harmless /\ Frame
  <2>1. Straight("resume", {i}, FALSE) /\ Frame /\ {i} \in SUBSET Ids BY <1>15 DEF ResumeRow
  <2> QED BY <1>3, <1>5, <2>1, Straights
<1>16. ASSUME NEW i \in Ids, ConfirmCancel(i) PROVE Clicked /\ Harmless /\ Frame
  <2>1. /\ IF HasData(i) THEN AskConfirm("cancel", {i}) ELSE Straight("cancel", {i}, FALSE)
        /\ Frame /\ {i} \in SUBSET Ids
    BY <1>16 DEF ConfirmCancel
  <2>2. CASE HasData(i) BY <1>3, <1>4, <2>1, <2>2, Questions
  <2>3. CASE ~HasData(i)
    <3> DEFINE ids == {i}
    <3>1. /\ Straight("cancel", ids, FALSE) /\ ids \in SUBSET Ids /\ ids \in SUBSET Listed(view)
          /\ \A j \in ids : ~HasData(j)
      BY <1>16, <2>1, <2>3 DEF ConfirmCancel, Cancellable
    <3> HIDE DEF ids
    <3>2. Clicked /\ \A c \in calls' \ calls : c.op = "cancel" /\ c.ids = ids
      BY <1>3, <3>1, Straights
    <3>3. Harmless BY <1>6, <3>1, <3>2
    <3> QED BY <2>1, <3>2, <3>3
  <2> QED BY <2>2, <2>3
<1>17. ASSUME NEW i \in Ids, NEW action \in {"overwrite", "skip", "rename"}, ResolveOne(i, action)
       PROVE  Clicked /\ Harmless /\ Frame
  <2>1. Straight(action, {i}, FALSE) /\ Frame /\ {i} \in SUBSET Ids BY <1>17 DEF ResolveOne
  <2>2. Clicked /\ \A c \in calls' \ calls : c.op = action BY <1>3, <2>1, Straights
  <2> QED BY <1>4, <1>5, <1>18, <2>1, <2>2
<1> QED BY <1>7, <1>8, <1>9, <1>10, <1>11, <1>12, <1>13, <1>14, <1>15, <1>16, <1>17 DEF Buttons

\* Selecting, switching views, and the dialog.
LEMMA OthersKeep ==
  ASSUME IInv,
         \/ \E i \in Ids, key \in {"", "ctrl", "shift"} : SelectRow(i, key)
         \/ SelectAll \/ ViewButtons \/ Dialog
  PROVE  IInv' /\ viewVer' = viewVer /\ Harmless
<1>1. MirrorInv /\ DockInv BY DEF IInv
<1>2. Listed(view) \subseteq Ids BY <1>1, Views
<1>3. ASSUME view' = view PROVE FlightAvailable(view)' <=> FlightAvailable(view)
  BY <1>3 DEF FlightAvailable, Listed, InState
<1>4. ASSUME calls' = calls \/ confirm # NoDialog PROVE Harmless BY <1>4 DEF Harmless
<1>5. ASSUME NEW i \in Ids, NEW key, SelectRow(i, key) PROVE IInv' /\ viewVer' = viewVer /\ Harmless
  <2>1. NoCall /\ UNCHANGED <<confirm, suppressed, reply, viewMode>> BY <1>5 DEF SelectRow
  <2>2. MirrorInv' /\ view' = view /\ viewVer' = viewVer /\ calls' = calls BY <1>1, <2>1, IdleKeeps
  <2>3. selected' \subseteq Ids /\ anchor' \in Ids \cup {0}
    <3>1. selected \subseteq Ids /\ anchor \in Ids \cup {0} BY <1>1 DEF DockInv
    <3>2. i \in Ids /\ (key = "ctrl" => selected \subseteq Ids) BY <3>1
    <3> QED BY <1>2, <1>5, <3>1 DEF SelectRow
  <2>4. DockInv' BY <1>1, <1>3, <2>1, <2>2, <2>3 DEF DockInv
  <2> QED BY <1>4, <2>2, <2>4 DEF IInv
<1>6. CASE SelectAll
  <2>1. /\ NoCall /\ UNCHANGED <<anchor, confirm, suppressed, reply, viewMode>>
        /\ selected' \in {Listed(view), {}}
    BY <1>6 DEF SelectAll
  <2>2. MirrorInv' /\ view' = view /\ viewVer' = viewVer /\ calls' = calls BY <1>1, <2>1, IdleKeeps
  <2>3. DockInv' BY <1>1, <1>2, <1>3, <2>1, <2>2 DEF DockInv
  <2> QED BY <1>4, <2>2, <2>3 DEF IInv
<1>7. ASSUME NEW m \in {"browse", "flight", "deck", "timeline"}, SetViewMode(m)
      PROVE  IInv' /\ viewVer' = viewVer /\ Harmless
  <2>1. /\ m = "flight" => FlightAvailable(view)
        /\ viewMode' = m /\ UNCHANGED <<selected, anchor, confirm, suppressed, reply>>
        /\ IF m = "deck"
           THEN /\ RefreshTransfers
                /\ UNCHANGED <<backVars, calls, wire, timer, listVars, progress, pauseVars, unheard>>
           ELSE NoCall
    BY <1>7 DEF SetViewMode
  <2>2. MirrorInv' /\ view' = view /\ viewVer' = viewVer /\ calls' = calls
    <3>1. CASE m = "deck"
      <4>1. timer' \in BOOLEAN BY <1>1, <2>1, <3>1, FrontTypes
      <4> QED BY <1>1, <2>1, <3>1, <4>1, RefreshKeeps DEF listVars
    <3>2. CASE m # "deck" BY <1>1, <2>1, <3>2, IdleKeeps
    <3> QED BY <3>1, <3>2
  <2>3. DockInv' BY <1>1, <1>3, <2>1, <2>2 DEF DockInv
  <2> QED BY <1>4, <2>2, <2>3 DEF IInv
<1>8. CASE CloseConfirm
  <2>1. NoCall /\ confirm' = NoDialog /\ UNCHANGED <<selected, anchor, suppressed, reply, viewMode>>
    BY <1>8 DEF CloseConfirm
  <2>2. MirrorInv' /\ view' = view /\ viewVer' = viewVer /\ calls' = calls BY <1>1, <2>1, IdleKeeps
  <2>3. NoDialog \in [op : Op, ids : SUBSET Ids] BY DEF NoDialog, Op
  <2>4. DockInv' BY <1>1, <1>3, <2>1, <2>2, <2>3 DEF DockInv
  <2> QED BY <1>4, <2>2, <2>4 DEF IInv
<1>9. ASSUME NEW silence \in BOOLEAN, AcceptConfirm(silence)
      PROVE  IInv' /\ viewVer' = viewVer /\ Harmless
  <2>1. /\ confirm # NoDialog /\ (silence => confirm.op \in Silenceable)
        /\ suppressed' = IF silence THEN suppressed \cup {confirm.op} ELSE suppressed
        /\ Send(confirm.op, confirm.ids, FALSE) /\ confirm' = NoDialog
        /\ UNCHANGED <<selected, anchor, reply, viewMode>>
    BY <1>9 DEF AcceptConfirm, Modal
  <2>2. confirm.op \in Op /\ confirm.ids \in SUBSET Ids /\ FALSE \in BOOLEAN BY <1>1 DEF DockInv
  <2>3. MirrorInv' /\ view' = view /\ viewVer' = viewVer BY <1>1, <2>1, <2>2, SentKeeps
  <2>4. NoDialog \in [op : Op, ids : SUBSET Ids] BY DEF NoDialog, Op
  <2>5. suppressed' \subseteq Silenceable BY <1>1, <2>1 DEF DockInv
  <2>6. DockInv' BY <1>1, <1>3, <2>1, <2>3, <2>4, <2>5 DEF DockInv
  <2> QED BY <1>4, <2>1, <2>3, <2>6 DEF IInv
<1> QED BY <1>5, <1>6, <1>7, <1>8, <1>9 DEF ViewButtons, Dialog

\* What every step keeps.
LEMMA StepKeeps ==
  ASSUME IInv, [Next]_vars
  PROVE  IInv' /\ viewVer' >= viewVer /\ (Harmless \/ UNCHANGED vars)
<1>1. MirrorInv /\ DockInv /\ viewVer \in Nat
  <2>1. MirrorInv BY DEF IInv
  <2> QED BY <2>1, FrontTypes DEF IInv
<1>2. CASE Backend
  <2>1. IInv' /\ viewVer' = viewVer /\ calls' \subseteq calls BY <1>2, BackendKeeps
  <2>2. Harmless BY <2>1 DEF Harmless
  <2> QED BY <1>1, <2>1, <2>2
<1>3. CASE Frontend
  <2>1. IInv' /\ viewVer' >= viewVer /\ calls' = calls BY <1>3, FrontendKeeps
  <2>2. Harmless BY <2>1 DEF Harmless
  <2> QED BY <2>1, <2>2
<1>4. CASE User
  <2>1. \/ Buttons
        \/ \E i \in Ids, key \in {"", "ctrl", "shift"} : SelectRow(i, key)
        \/ SelectAll \/ ViewButtons \/ Dialog
    <3>1. /\ Header => Buttons
          /\ OnListKey => Buttons \/ SelectAll
          /\ QueueCommands => Buttons
      BY DEF Header, OnListKey, QueueCommands, Buttons
    <3>2. ASSUME NEW i \in Ids, RowButtons(i) \/ DeckButtons(i) \/ TimelineButtons(i)
          PROVE  Buttons \/ \E key \in {"", "ctrl", "shift"} : SelectRow(i, key)
      BY <3>2 DEF RowButtons, DeckButtons, TimelineButtons, Buttons
    <3> QED BY <1>4, <3>1, <3>2 DEF User, Press
  <2>2. CASE Buttons
    <3>1. Clicked /\ Harmless /\ Frame BY <2>2, ButtonsKeep
    <3>2. view' = view => (FlightAvailable(view)' <=> FlightAvailable(view))
      BY DEF FlightAvailable, Listed, InState
    <3>3. DockInv' BY <1>1, <3>1, <3>2 DEF DockInv, Clicked, Frame
    <3> QED BY <1>1, <3>1, <3>3 DEF IInv, Clicked
  <2>3. CASE \/ \E i \in Ids, key \in {"", "ctrl", "shift"} : SelectRow(i, key)
             \/ SelectAll \/ ViewButtons \/ Dialog
    <3>1. IInv' /\ viewVer' = viewVer /\ Harmless BY <2>3, OthersKeep
    <3> QED BY <1>1, <3>1
  <2> QED BY <2>1, <2>2, <2>3
<1>5. CASE UNCHANGED vars
  <2>1. NoCall /\ UNCHANGED dockVars BY <1>5 DEF vars, NoCall
  <2>2. MirrorInv' /\ view' = view /\ viewVer' = viewVer BY <1>1, <2>1, IdleKeeps
  <2>3. DockInv' BY <1>1, <2>1, <2>2 DEF DockInv, dockVars, FlightAvailable, Listed, InState
  <2> QED BY <1>1, <1>5, <2>2, <2>3 DEF IInv
<1> QED BY <1>2, <1>3, <1>4, <1>5 DEF Next
-----------------------------------------------------------------------------
(* Theorems.                                                               *)

\* The inductive invariant holds in every reachable state.
THEOREM Invariance == Spec => []IInv
<1>1. IInv /\ [Next]_vars => IInv' BY StepKeeps
<1> QED BY InitIInv, <1>1, PTL DEF Spec

\* Every variable of the mirror and of the dock keeps its type, and the flight
\* view is left when its button goes (store.ts:40-115, App.tsx:183-195).
THEOREM TypeCorrect == Spec => []TypeOK
<1>1. IInv => TypeOK BY DEF IInv, DockInv, MirrorInv, Shapes, TypeOK
<1> QED BY Invariance, <1>1, PTL

\* When nothing is under way, the list shows every row of the window as it is,
\* whatever the size of the table and of the window, and the pause button the
\* pause: whatever was coalesced, superseded or patched, the last change was read
\* (store.ts:137-157, QueueDock.tsx:162-176, :229-249, transfers.go:143-223).
THEOREM QuietListIsCurrent == Spec => []QuietIsCurrent
<1>1. IInv => QuietIsCurrent
  <2> SUFFICES ASSUME IInv, Quiet
               PROVE  /\ unheard \/ Current
                      /\ hydrate.at = "done" /\ calls = {} => uiPaused = paused
    BY DEF QuietIsCurrent
  <2>1. MirrorInv BY DEF IInv
  <2>2. unheard \/ Current BY <2>1, QuietKnows
  <2>3. out = {} /\ wire = <<>> BY DEF Quiet
  <2>4. Shown BY <2>1, <2>3, NothingSaid DEF MirrorInv, PauseMirrored, PauseSaid
  <2> QED BY <2>2, <2>4 DEF Shown
<1> QED BY Invariance, <1>1, PTL

\* Before a row of the window's oldest there is none the window leaves out.
LEMMA OldestFirst ==
  ASSUME NEW S \in SUBSET Ids, NEW cap \in Nat, NEW i \in OldestOf(S, cap), NEW j \in S, j < i
  PROVE  j \in OldestOf(S, cap)
<1> DEFINE Before(k) == {l \in S : l < k}
<1>1. i \in Nat \ {0} /\ j \in Nat \ {0} /\ S \subseteq Nat \ {0}
  BY IdAssumption DEF OldestOf
<1>2. IsFiniteSet(1..i) BY <1>1, FS_Interval
<1>3. Before(i) \subseteq 1..i /\ Before(j) \subseteq Before(i)
  <2>1. ASSUME NEW l \in S, l < i PROVE l \in 1..i BY <1>1, <2>1
  <2>2. ASSUME NEW l \in S, l < j PROVE l < i BY <1>1, <2>2
  <2> QED BY <2>1, <2>2
<1>4. IsFiniteSet(Before(i)) BY <1>2, <1>3, FS_Subset
<1>5. Cardinality(Before(j)) <= Cardinality(Before(i)) /\ IsFiniteSet(Before(j))
  BY <1>3, <1>4, FS_Subset
<1>6. Cardinality(Before(i)) \in Nat /\ Cardinality(Before(j)) \in Nat
  BY <1>4, <1>5, FS_CardinalityType
<1>7. Cardinality(Before(i)) < cap BY DEF OldestOf
<1>8. Cardinality(Before(j)) < cap BY <1>5, <1>6, <1>7
<1> QED BY <1>8 DEF OldestOf

\* All views of a list that is current agree with the part of the queue the window
\* holds, rows and order, and none hides a running row (claimOrder.ts:16-19,
\* transfers.go:130-137, :143-223).
THEOREM ViewsAgree == Spec => []ViewsMatchQueue
<1>1. ASSUME IInv, Current PROVE ViewsMatchQueue
  <2>1. MirrorInv /\ RowsOk(rows) BY <1>1 DEF IInv, MirrorInv, Shapes
  <2> DEFINE inSight == InWindow(rows)
             mayRun == {i \in InState(rows, {"pending"}) \cap inSight : ~rows[i].held}
             active == {i \in Ids : rows[i].state = "active"}
  <2>2. /\ inSight \subseteq Ids
        /\ \A i \in inSight : /\ view[i].state = rows[i].state /\ view[i].held = rows[i].held
                               /\ view[i].retry = rows[i].retry /\ rows[i].state # "dispatched"
        /\ \A i \in Ids \ inSight : view[i].state = "none"
    BY <1>1, <2>1, SameFields DEF RowsOk, NoRow
  <2>10. active \subseteq inSight BY DEF InWindow, InState
  <2>11. ASSUME NEW i \in inSight, rows[i].state = "pending"
         PROVE  i \in OldestOf(InState(rows, {"pending"}), PendingCap)
    BY <2>11 DEF InWindow, InState, NewestOf
  <2> HIDE DEF inSight
  <2>3. InState(view, {"active"}) = active BY <2>2, <2>10 DEF InState
  <2>4. InState(view, {"pending", "dispatched"}) \ HeldRows(view) = mayRun
    BY <2>2 DEF InState, HeldRows
  <2>5. {i \in Ids : ~view[i].held /\ view[i].state \in {"pending", "dispatched"}} = mayRun
    BY <2>2 DEF InState
  <2>6. DOMAIN NextUp(view, viewDue) = mayRun BY <2>4 DEF NextUp, Armed
  <2>7. \A i \in inSight : Backoff(view[i], viewDue) <=> Backoff(rows[i], viewDue)
    BY <2>2 DEF Backoff
  <2> HIDE DEF mayRun, active
  <2>8. ASSUME NEW v \in {DockView(view), DeckView(view, viewDue), FlightView(view),
                          TimelineView(view, viewDue), MiniView(view)}
        PROVE  v.queued = mayRun /\ v.active = active
    <3>1. DockView(view).queued = mayRun /\ DockView(view).active = active
      BY <2>3, <2>4 DEF DockView
    <3>2. DeckView(view, viewDue).queued = mayRun /\ DeckView(view, viewDue).active = active
      BY <2>3, <2>6 DEF DeckView
    <3>3. FlightView(view).queued = mayRun /\ FlightView(view).active = active
      BY <2>3, <2>4 DEF FlightView
    <3>4. TimelineView(view, viewDue).queued = mayRun /\ TimelineView(view, viewDue).active = active
      BY <2>3, <2>6 DEF TimelineView
    <3>5. MiniView(view).queued = mayRun /\ MiniView(view).active = active
      BY <2>3, <2>5 DEF MiniView
    <3> QED BY <2>8, <3>1, <3>2, <3>3, <3>4, <3>5
  <2>9. ASSUME viewDue = due, NEW i \in Claimable(rows, due) \cap inSight
        PROVE  NextUp(view, viewDue)[i] = PendingTransfers(rows, due)[i]
    <3>1. mayRun = Armed(view) BY <2>4 DEF Armed
    <3>2. /\ i \in mayRun /\ i \in inSight /\ ~Backoff(rows[i], due) /\ rows[i].state = "pending"
      BY DEF Claimable, mayRun, InState
    <3>3. NextUp(view, viewDue)[i] = {j \in mayRun : ClaimOrder(view, due, j, i)}
      BY <2>9, <3>1, <3>2 DEF NextUp
    <3>4. PendingTransfers(rows, due)[i] = {j \in Claimable(rows, due) : j < i}
      BY DEF PendingTransfers
    <3>5. ASSUME NEW j \in mayRun PROVE ClaimOrder(view, due, j, i) <=> ~Backoff(rows[j], due) /\ j < i
      <4>1. j \in inSight BY DEF mayRun
      <4>2. /\ Backoff(view[j], due) <=> Backoff(rows[j], due)
            /\ ~Backoff(view[i], due)
            /\ Backoff(view[j], due) \in BOOLEAN /\ Backoff(view[i], due) \in BOOLEAN
        BY <2>7, <2>9, <3>2, <4>1 DEF Backoff
      <4> QED BY <4>2 DEF ClaimOrder
    <3>6. ASSUME NEW j \in InState(rows, {"pending"}), j < i PROVE j \in inSight
      <4>1. InState(rows, {"pending"}) \in SUBSET Ids /\ PendingCap \in Nat
        BY CapAssumption DEF InState
      <4>2. j \in OldestOf(InState(rows, {"pending"}), PendingCap)
        BY <2>11, <3>2, <3>6, <4>1, OldestFirst
      <4> QED BY <4>2 DEF inSight, InWindow
    <3>7. {j \in Claimable(rows, due) : j < i} = {j \in mayRun : ~Backoff(rows[j], due) /\ j < i}
      BY <3>6 DEF Claimable, mayRun
    <3> QED BY <3>3, <3>4, <3>5, <3>7
  <2> QED BY <2>8, <2>9 DEF ViewsMatchQueue, mayRun, active, inSight
<1>2. IInv => ViewsMatchQueue BY <1>1 DEF ViewsMatchQueue
<1> QED BY Invariance, <1>2, PTL

\* The list on screen never goes back to an older reading of the table
\* (store.ts:27-28, :141).
THEOREM NoRewind == Spec => ListNeverRewinds
<1> DEFINE Forward == viewVer' >= viewVer
<1>1. IInv /\ [Next]_vars => [Forward]_mirrorVars BY StepKeeps
<1> QED BY Invariance, <1>1, PTL DEF Spec, ListNeverRewinds

\* While the mirror is quiet and heard every write, no click destroys recorded
\* bytes unasked that the list could show: what remains are the cancelled rows
\* beyond the window, which Clear done takes along, and rows that ran before they
\* were held, which Skip takes (confirmCancel.ts:13-23, QueueDock.tsx:502-525,
\* :626-639, transfers.go:143-223, app.go:1521-1537).
THEOREM DestructionIsAsked == Spec => AsksFirst
<1> DEFINE Asked == \A c \in calls' \ calls :
              Quiet /\ ~unheard /\ confirm = NoDialog /\ c.op \notin suppressed
                => Doomed(c) \subseteq OutOfSight(c)
<1>1. IInv /\ [Next]_vars => [Asked]_vars BY StepKeeps DEF Harmless
<1> QED BY Invariance, <1>1, PTL DEF Spec, AsksFirst
=============================================================================
