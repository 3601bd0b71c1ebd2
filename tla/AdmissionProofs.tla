-------------------------- MODULE AdmissionProofs --------------------------
(***************************************************************************)
(* Theorems about Admission, for every set of rows and sites, every scene  *)
(* and every number of attempts.                                           *)
(*                                                                         *)
(* IInv says what a reservation is worth at each step of a run: as long as *)
(* a runner lives its row is registered, what it has open it has reserved, *)
(* and the width it asked for tells whether its file may be chunked.  The  *)
(* counters are the numbers of connections reserved, as sets of pairs.     *)
(***************************************************************************)
EXTENDS Admission, FiniteSetTheorems, WellFoundedInduction, TLAPS

\* The least of a set of naturals is one of them.
LEMMA LeastNatural ==
  ASSUME NEW S \in SUBSET Nat, S # {}
  PROVE  Min(S) \in S /\ \A y \in S : Min(S) <= y
<1>1. \E x \in S : \A y \in S : ~ (<<y, x>> \in OpToRel(<, Nat))
  BY NatLessThanWellFounded, WFMin
<1>2. \E x \in S : \A y \in S : x <= y
  <2>1. PICK x \in S : \A y \in S : ~ (<<y, x>> \in OpToRel(<, Nat)) BY <1>1
  <2>2. ASSUME NEW y \in S PROVE x <= y
    <3>1. x \in Nat /\ y \in Nat OBVIOUS
    <3>2. ~ (y < x) BY <2>1, <3>1 DEF OpToRel
    <3> QED BY <3>1, <3>2
  <2> QED BY <2>2
<1> QED BY <1>2 DEF Min

\* A row whose count changes changes the number of connections counted by the
\* difference, in every set it belongs to.
LEMMA Recount ==
  ASSUME NEW f \in [Ids -> Nat], NEW g \in [Ids -> Nat], NEW T \in SUBSET Ids,
         NEW i \in Ids, NEW n \in Nat,
         IsFiniteSet(Counted(f, T)), g[i] = n, \A j \in Ids \ {i} : g[j] = f[j]
  PROVE  /\ IsFiniteSet(Counted(g, T))
         /\ Cardinality(Counted(f, T)) \in Nat
         /\ Cardinality(Counted(g, T)) =
              IF i \in T THEN Cardinality(Counted(f, T)) - f[i] + n ELSE Cardinality(Counted(f, T))
<1>1. CASE i \notin T
  <2>1. Counted(g, T) = Counted(f, T) BY <1>1 DEF Counted
  <2> QED BY <1>1, <2>1, FS_CardinalityType
<1>2. CASE i \in T
  <2> DEFINE R == Counted(f, T \ {i})
  <2>1. R \subseteq Counted(f, T) BY DEF Counted
  <2>2. IsFiniteSet(R) BY <2>1, FS_Subset
  <2>3. ASSUME NEW m \in Nat
        PROVE  IsFiniteSet({i} \X (1..m)) /\ Cardinality({i} \X (1..m)) = m
    <3> DEFINE I == 1..m
    <3>a. 1 \in Int /\ m \in Int OBVIOUS
    <3>b. IsFiniteSet(I) /\ Cardinality(I) = IF 1 > m THEN 0 ELSE m - 1 + 1 BY <3>a, FS_Interval
    <3>1. IsFiniteSet(I) /\ Cardinality(I) = m BY <3>b
    <3>2. IsFiniteSet({i}) /\ Cardinality({i}) = 1 BY FS_Singleton
    <3>3. /\ IsFiniteSet({i} \X (1..m))
          /\ Cardinality({i} \X (1..m)) = Cardinality({i}) * Cardinality(1..m)
      BY <3>1, <3>2, FS_Product
    <3> QED BY <3>1, <3>2, <3>3
  <2>4. ASSUME NEW h \in [Ids -> Nat], \A j \in Ids \ {i} : h[j] = f[j]
        PROVE  /\ IsFiniteSet(Counted(h, T))
               /\ Cardinality(Counted(h, T)) = Cardinality(R) + h[i]
    <3>1. Counted(h, T \ {i}) = R BY <2>4 DEF Counted
    <3>2. Counted(h, T) = R \cup ({i} \X (1..h[i])) BY <1>2, <3>1 DEF Counted
    <3>3. R \cap ({i} \X (1..h[i])) = {} BY DEF Counted
    <3>4. IsFiniteSet({i} \X (1..h[i])) /\ Cardinality({i} \X (1..h[i])) = h[i] BY <2>3
    <3>5. Cardinality(R) \in Nat BY <2>2, FS_CardinalityType
    <3> HIDE DEF R
    <3>6. Cardinality({}) = 0 BY FS_EmptySet
    <3>8. h[i] \in Nat OBVIOUS
    <3>7. /\ IsFiniteSet(Counted(h, T))
          /\ Cardinality(Counted(h, T)) =
               Cardinality(R) + Cardinality({i} \X (1..h[i])) - Cardinality({})
      BY <2>2, <3>2, <3>3, <3>4, FS_Union
    <3> QED BY <3>4, <3>5, <3>6, <3>7, <3>8
  <2>7. /\ IsFiniteSet(Counted(g, T)) /\ Cardinality(Counted(g, T)) = Cardinality(R) + n
    BY <2>4
  <2>8. Cardinality(Counted(f, T)) = Cardinality(R) + f[i] BY <2>4
  <2>9. Cardinality(R) \in Nat /\ f[i] \in Nat BY <2>2, FS_CardinalityType
  <2> HIDE DEF R
  <2> QED BY <1>2, <2>7, <2>8, <2>9
<1> QED BY <1>1, <1>2
-----------------------------------------------------------------------------
(* The inductive invariant.                                                *)

States == {"none", "pending", "active", "completed", "failed", "cancelled"}
Stages == {"none", "dial", "resize", "plan", "copy", "error", "ended", "release"}
Large(i) == scene.row[i].wide

Shapes ==
  /\ scene \in Scenes /\ budget \in scene.budgets
  /\ state \in [Ids -> States] /\ attempt \in [Ids -> 0..(MaxAttempts - 1)]
  /\ backoff \in [Ids -> BOOLEAN] /\ plan \in [Ids -> BOOLEAN]
  /\ slots \in [Ids -> Nat] /\ asked \in [Ids -> Nat] /\ conns \in [Ids -> Nat]
  /\ perSite \in [Sites -> Int] /\ activeN \in Int
  /\ granted \in [Sites -> Nat] /\ fresh \subseteq Sites
  /\ at \in [Ids -> Stages]

Passes ==
  [at : {"idle", "look", "admit", "claim"}, todo : SUBSET Ids, global : Nat, def : Nat,
   own : [Sites -> Int], blocked : SUBSET (Sites \X Dirs), want : Nat]

\* What pump has read is of some setting, and its pass is not over before its list is.
Pass ==
  /\ pump \in Passes
  /\ pump.at # "idle" =>
       /\ pump.todo # {}
       /\ \E b \in scene.budgets : pump.global = b.global
       /\ \E b \in scene.budgets : pump.def = b.def
  /\ \A s \in Sites : pump.own[s] = -1 \/ pump.own[s] \in PassCaps(s)

\* Both counters count the reservations.
Counters ==
  /\ IsFiniteSet(Counted(slots, Ids))
  /\ activeN = Cardinality(Counted(slots, Ids))
  /\ \A s \in Sites : perSite[s] = Cardinality(Counted(slots, RowsOf(s)))

\* What a runner has reserved and opened, step by step.
RunOf(i) ==
  /\ conns[i] <= slots[i]
  /\ at[i] # "none" => slots[i] > 0
  /\ at[i] \in {"none", "release"} => conns[i] = 0
  /\ at[i] = "dial" => slots[i] = asked[i] /\ conns[i] < asked[i]
  /\ at[i] = "resize" => 1 <= conns[i]

\* A width of two or more is that of a large file, and a large file that may
\* have two is given them.
Allows(i, n) == (n >= 2 => Large(i)) /\ (Large(i) /\ TwoAllowed(i) => n >= 2)

Widths ==
  /\ \A i \in Ids : at[i] # "none" => Allows(i, asked[i])
  /\ pump.at = "admit" =>
       /\ pump.want >= 1 /\ Allows(First, pump.want)
       /\ pump.own[SiteOf(First)] \in PassCaps(SiteOf(First))
  /\ pump.at = "claim" =>
       slots[First] >= 1 /\ at[First] = "none" /\ Allows(First, slots[First])

\* Only large files have plans, and only rows that exist have plans or run.
Plans ==
  \A i \in Ids : (plan[i] => Large(i)) /\ (plan[i] \/ at[i] # "none" => state[i] # "none")

Ceilings ==
  /\ \E b \in scene.budgets : activeN <= b.global
  /\ \A s \in Sites : \E cap \in PassCaps(s) : perSite[s] <= cap

Runs == \A i \in Ids : RunOf(i)
IInv == Shapes /\ Pass /\ Counters /\ Runs /\ Widths /\ Plans /\ Ceilings
-----------------------------------------------------------------------------
(* The operators.                                                          *)

\* The settings of a scene are naturals.
LEMMA SceneTypes ==
  ASSUME scene \in Scenes
  PROVE  /\ \A i \in Ids : SiteOf(i) \in Sites /\ scene.row[i].dir \in Dirs /\ Large(i) \in BOOLEAN
         /\ \A i \in scene.stream : i \in Ids /\ ~Large(i)
         /\ scene.queued \subseteq Ids
         /\ \A b \in scene.budgets :
              /\ b.global \in Nat \ {0} /\ b.def \in Nat \ {0}
              /\ \A s \in Sites : b.own[s] \in Nat
              /\ \A d \in Dirs : b.lanes[d] \in Nat
BY AdmissionAssumption DEF SiteOf, Large, Budget

\* There is a cap to find for every site, and it allows a connection.
LEMMA CapsArePositive ==
  ASSUME scene \in Scenes, NEW s \in Sites
  PROVE  /\ PassCaps(s) \subseteq Nat \ {0}
         /\ \A b \in scene.budgets : b.own[s] > 0 => b.own[s] \in PassCaps(s)
         /\ \A b, c \in scene.budgets : ~(b.own[s] > 0) => c.def \in PassCaps(s)
         /\ scene.budgets # {} => PassCaps(s) # {}
<1>1. \A b \in scene.budgets : b.own[s] \in Nat /\ b.def \in Nat \ {0} BY SceneTypes
<1>2. ASSUME NEW cap \in PassCaps(s) PROVE cap \in Nat \ {0}
  <2>1. \/ \E b \in scene.budgets : b.own[s] > 0 /\ cap = b.own[s]
        \/ \E b \in scene.budgets : cap = b.def
    BY <1>2 DEF PassCaps
  <2> QED BY <1>1, <2>1
<1>3. ASSUME NEW b \in scene.budgets, b.own[s] > 0 PROVE b.own[s] \in PassCaps(s)
  BY <1>3 DEF PassCaps
<1>4. ASSUME NEW b \in scene.budgets, NEW c \in scene.budgets, ~(b.own[s] > 0)
      PROVE  c.def \in PassCaps(s)
  <2>1. b.own[s] = 0 BY <1>1, <1>4
  <2> QED BY <2>1 DEF PassCaps
<1> QED BY <1>2, <1>3, <1>4

\* The pass has a next row as long as it is under way.
LEMMA NextRow ==
  ASSUME Pass, pump.at # "idle"
  PROVE  First \in pump.todo /\ First \in Ids
BY LeastNatural, AdmissionAssumption DEF Pass, Passes, First

\* A width is at least one; that of a large file is two or more when the
\* settings leave it two, and nobody else's is.
LEMMA WidthGiven ==
  ASSUME scene \in Scenes, budget \in scene.budgets, NEW i \in Ids, NEW cap \in PassCaps(SiteOf(i))
  PROVE  /\ StreamsFor(i, cap) \in Nat /\ StreamsFor(i, cap) >= 1
         /\ Allows(i, StreamsFor(i, cap))
<1> DEFINE lanes == budget.lanes[scene.row[i].dir]
           S == {lanes, budget.global, cap}
<1>1. lanes \in Nat /\ budget.global \in Nat /\ cap \in Nat BY SceneTypes, CapsArePositive
<1>2. S \in SUBSET Nat /\ S # {} BY <1>1
<1>3. Min(S) \in Nat /\ (\A y \in S : Min(S) <= y) /\ Min(S) \in S
  <2> HIDE DEF S
  <2>1. Min(S) \in S /\ \A y \in S : Min(S) <= y BY <1>2, LeastNatural
  <2> QED BY <1>2, <2>1
<1>4. StreamsFor(i, cap) = IF Large(i) /\ Min(S) >= 2 THEN Min(S) ELSE 1
  BY DEF StreamsFor, Large
<1>5. TwoAllowed(i) => Min(S) >= 2
  <2>1. TwoAllowed(i) => lanes >= 2 /\ budget.global >= 2 /\ cap >= 2 BY DEF TwoAllowed
  <2> QED BY <1>3, <2>1
<1> HIDE DEF S
<1> QED BY <1>3, <1>4, <1>5 DEF Allows

\* An observed ceiling takes away neither the last connection nor, from a
\* large file, the second.
LEMMA ClampKeeps ==
  ASSUME NEW i \in Ids, NEW s \in Sites, NEW n \in Nat, n >= 1, Allows(i, n),
         granted \in [Sites -> Nat]
  PROVE  /\ ClampToGranted(s, n) \in Nat /\ ClampToGranted(s, n) >= 1
         /\ Allows(i, ClampToGranted(s, n))
<1>1. granted[s] \in Nat OBVIOUS
<1>2. /\ ClampToGranted(s, n) \in Nat /\ ClampToGranted(s, n) >= 1
      /\ n >= 2 => ClampToGranted(s, n) >= 2
      /\ ClampToGranted(s, n) >= 2 => n >= 2
  BY <1>1 DEF ClampToGranted
<1> QED BY <1>2 DEF Allows
-----------------------------------------------------------------------------
(* Types and counters.                                                     *)

\* What a step may do to the reservations: one row's changes, and grows only
\* by an admission that fits.
Recounts ==
  \/ UNCHANGED <<slots, perSite, activeN>>
  \/ \E i \in Ids, n \in Nat :
       /\ slots' = [slots EXCEPT ![i] = n]
       /\ perSite' = [perSite EXCEPT ![SiteOf(i)] = perSite[SiteOf(i)] - slots[i] + n]
       /\ activeN' = activeN - slots[i] + n
       /\ \/ n <= slots[i]
          \/ /\ pump.at = "admit" /\ i = First
             /\ activeN + n <= pump.global /\ slots[i] = 0
             /\ perSite[SiteOf(i)] + n <= pump.own[SiteOf(i)]

\* Handing a reservation back is such a change.
LEMMA Handback ==
  ASSUME Shapes, NEW i \in Ids, DropReservation(i)
  PROVE  Recounts /\ granted' \in [Sites -> Nat] /\ fresh' \subseteq Sites
<1>1. SiteOf(i) \in Sites BY SceneTypes DEF Shapes
<1>2. perSite[SiteOf(i)] \in Int /\ activeN \in Int /\ slots[i] \in Nat BY <1>1 DEF Shapes
<1> DEFINE s == SiteOf(i)
<1>3. perSite[s] - slots[i] = perSite[s] - slots[i] + 0 BY <1>2
<1>4. perSite' = [perSite EXCEPT ![s] = perSite[s] - slots[i] + 0] BY <1>3 DEF DropReservation
<1>5. activeN' = activeN - slots[i] + 0 /\ 0 <= slots[i] BY <1>2 DEF DropReservation
<1>6. slots' = [slots EXCEPT ![i] = 0] BY DEF DropReservation
<1>7. Recounts BY <1>4, <1>5, <1>6 DEF Recounts
<1>8. granted' \in [Sites -> Nat] /\ fresh' \subseteq Sites BY DEF DropReservation, Shapes
<1> QED BY <1>7, <1>8

\* Every step changes the reservations as Recounts says.
LEMMA OnlyRecounts ==
  ASSUME IInv, [Next]_vars
  PROVE  Recounts
<1> USE DEF memVars
<1>1. CASE UNCHANGED vars BY <1>1 DEF vars, Recounts
<1>2. CASE PumpList BY <1>2 DEF PumpList, Recounts
<1>3. CASE PumpLook BY <1>3 DEF PumpLook, Recounts
<1>4. CASE PumpAdmit
  <2>1. First \in Ids BY <1>4, NextRow DEF PumpAdmit, IInv, Pass, Passes
  <2> DEFINE i == First  s == SiteOf(i)  n == ClampToGranted(s, pump.want)
  <2>2. s \in Sites BY <2>1, SceneTypes DEF IInv, Shapes
  <2>3. n \in Nat /\ n >= 1
    BY <1>4, <2>1, <2>2, ClampKeeps DEF PumpAdmit, IInv, Pass, Passes, Widths, Shapes
  <2>4. CASE UNCHANGED <<slots, perSite, activeN>> BY <2>4 DEF Recounts
  <2>5. CASE /\ i \notin Registered /\ Fits(s, n)
             /\ slots' = [slots EXCEPT ![i] = n]
             /\ perSite' = [perSite EXCEPT ![s] = perSite[s] + n] /\ activeN' = activeN + n
    <3>1. slots[i] = 0 BY <2>1, <2>5 DEF Registered, IInv, Shapes
    <3>2. perSite[s] \in Int /\ activeN \in Int BY <2>2 DEF IInv, Shapes
    <3>3. perSite[s] + n = perSite[s] - slots[i] + n /\ activeN + n = activeN - slots[i] + n
      BY <2>3, <3>1, <3>2
    <3>4. perSite' = [perSite EXCEPT ![s] = perSite[s] - slots[i] + n] BY <2>5, <3>3
    <3>5. activeN' = activeN - slots[i] + n BY <2>5, <3>3
    <3>6. activeN + n <= pump.global /\ perSite[s] + n <= pump.own[s] BY <2>5 DEF Fits
    <3>7. pump.at = "admit" BY <1>4 DEF PumpAdmit
    <3> HIDE DEF n
    <3> QED BY <2>1, <2>3, <2>5, <3>1, <3>4, <3>5, <3>6, <3>7 DEF Recounts
  <2> QED BY <1>4, <2>4, <2>5 DEF PumpAdmit
<1>5. CASE PumpClaim BY <1>5 DEF PumpClaim, Recounts
<1>6. CASE PumpLoseClaim
  BY <1>6, NextRow, Handback DEF PumpLoseClaim, IInv
<1>7. ASSUME NEW i \in Ids, RunTransfer(i) PROVE Recounts
  <2>1. CASE Resize(i)
    <3>1. conns[i] \in Nat /\ slots[i] \in Nat /\ conns[i] <= slots[i]
      BY DEF IInv, Shapes, Runs, RunOf
    <3> DEFINE s == SiteOf(i)
    <3>2. s \in Sites BY SceneTypes DEF IInv, Shapes
    <3>3. perSite[s] \in Int /\ activeN \in Int BY <3>2 DEF IInv, Shapes
    <3>4. /\ perSite[s] - (slots[i] - conns[i]) = perSite[s] - slots[i] + conns[i]
          /\ activeN - (slots[i] - conns[i]) = activeN - slots[i] + conns[i]
      BY <3>1, <3>3
    <3>5. perSite' = [perSite EXCEPT ![s] = perSite[s] - slots[i] + conns[i]]
      BY <2>1, <3>4 DEF Resize
    <3>6. activeN' = activeN - slots[i] + conns[i] /\ slots' = [slots EXCEPT ![i] = conns[i]]
      BY <2>1, <3>4 DEF Resize
    <3> QED BY <3>1, <3>5, <3>6 DEF Recounts
  <2>2. CASE Release(i) BY <2>2, Handback DEF Release, IInv
  <2>3. CASE ~Resize(i) /\ ~Release(i)
    <3>1. UNCHANGED memVars
      BY <1>7, <2>3 DEF RunTransfer, DialOne, DialRefused, ChunkPlan, Completes, CopyFails,
                        Settles, CloseAll
    <3> QED BY <3>1 DEF Recounts
  <2> QED BY <2>1, <2>2, <2>3
<1>8. CASE Environment
  BY <1>8 DEF Environment, SetBudget, BackoffElapses, Enqueue, Withdraw, GrantExpires, Recounts
<1> QED BY <1>1, <1>2, <1>3, <1>4, <1>5, <1>6, <1>7, <1>8 DEF Next, Pump

\* The counters go on being the numbers of connections reserved.
LEMMA CountersStep ==
  ASSUME IInv, Recounts, scene' = scene
  PROVE  Counters'
<1>1. CASE UNCHANGED <<slots, perSite, activeN>>
  <2>1. \A s \in Sites : RowsOf(s)' = RowsOf(s) BY DEF RowsOf, SiteOf
  <2>2. \A T : Counted(slots, T)' = Counted(slots', T') BY DEF Counted
  <2> QED BY <1>1, <2>1 DEF IInv, Counters, Counted
<1>2. ASSUME NEW i \in Ids, NEW n \in Nat,
             slots' = [slots EXCEPT ![i] = n],
             perSite' = [perSite EXCEPT ![SiteOf(i)] = perSite[SiteOf(i)] - slots[i] + n],
             activeN' = activeN - slots[i] + n
      PROVE  Counters'
  <2>1. slots \in [Ids -> Nat] /\ perSite \in [Sites -> Int] BY DEF IInv, Shapes
  <2>2. IsFiniteSet(Counted(slots, Ids)) BY DEF IInv, Counters
  <2>a. slots' \in [Ids -> Nat] /\ slots'[i] = n /\ \A j \in Ids \ {i} : slots'[j] = slots[j]
    BY <1>2, <2>1
  <2>3. /\ IsFiniteSet(Counted(slots', Ids))
        /\ Cardinality(Counted(slots', Ids)) = Cardinality(Counted(slots, Ids)) - slots[i] + n
    BY <2>1, <2>2, <2>a, Recount
  <2>4. ASSUME NEW s \in Sites
        PROVE  perSite'[s] = Cardinality(Counted(slots', RowsOf(s)))
    <3>1. RowsOf(s) \in SUBSET Ids /\ (i \in RowsOf(s) <=> SiteOf(i) = s) BY DEF RowsOf
    <3>2. Counted(slots, RowsOf(s)) \in SUBSET Counted(slots, Ids) BY <3>1 DEF Counted
    <3>3. IsFiniteSet(Counted(slots, RowsOf(s))) BY <2>2, <3>2, FS_Subset
    <3>4. Cardinality(Counted(slots', RowsOf(s))) =
            IF i \in RowsOf(s) THEN Cardinality(Counted(slots, RowsOf(s))) - slots[i] + n
                               ELSE Cardinality(Counted(slots, RowsOf(s)))
      BY <2>1, <2>a, <3>1, <3>3, Recount
    <3>5. perSite[s] = Cardinality(Counted(slots, RowsOf(s))) BY DEF IInv, Counters
    <3> QED BY <1>2, <2>1, <3>1, <3>4, <3>5
  <2>5. activeN' = Cardinality(Counted(slots', Ids)) BY <1>2, <2>3 DEF IInv, Counters
  <2>6. \A s \in Sites : RowsOf(s)' = RowsOf(s) BY DEF RowsOf, SiteOf
  <2> QED BY <2>3, <2>4, <2>5, <2>6 DEF Counters, Counted
<1> QED BY <1>1, <1>2 DEF Recounts

\* The caps go on holding: only an admission adds, and it looks at caps of the scene.
LEMMA CeilingsStep ==
  ASSUME IInv, Recounts, scene' = scene
  PROVE  Ceilings'
<1>1. CASE UNCHANGED <<slots, perSite, activeN>>
  BY <1>1 DEF IInv, Ceilings, PassCaps
<1>2. ASSUME NEW i \in Ids, NEW n \in Nat,
             slots' = [slots EXCEPT ![i] = n],
             perSite' = [perSite EXCEPT ![SiteOf(i)] = perSite[SiteOf(i)] - slots[i] + n],
             activeN' = activeN - slots[i] + n,
             \/ n <= slots[i]
             \/ /\ pump.at = "admit" /\ i = First
                /\ activeN + n <= pump.global /\ slots[i] = 0
                /\ perSite[SiteOf(i)] + n <= pump.own[SiteOf(i)]
      PROVE  Ceilings'
  <2> DEFINE s == SiteOf(i)
  <2>1. /\ s \in Sites /\ slots[i] \in Nat /\ activeN \in Int
        /\ \A t \in Sites : perSite[t] \in Int
    BY SceneTypes DEF IInv, Shapes
  <2>2. \E b \in scene.budgets : activeN' <= b.global
    <3>1. PICK b \in scene.budgets : activeN <= b.global BY DEF IInv, Ceilings
    <3>2. b.global \in Nat BY SceneTypes DEF IInv, Shapes
    <3>3. CASE n <= slots[i] BY <1>2, <2>1, <3>1, <3>2, <3>3
    <3>4. CASE ~(n <= slots[i])
      <4>1. PICK c \in scene.budgets : pump.global = c.global BY <1>2, <3>4 DEF IInv, Pass
      <4> QED BY <1>2, <2>1, <3>4, <4>1
    <3> QED BY <3>3, <3>4
  <2>3. ASSUME NEW t \in Sites
        PROVE  \E cap \in PassCaps(t) : perSite'[t] <= cap
    <3>1. PICK cap \in PassCaps(t) : perSite[t] <= cap BY DEF IInv, Ceilings
    <3>2. cap \in Nat BY CapsArePositive DEF IInv, Shapes
    <3>3. CASE t # s BY <1>2, <3>1, <3>3 DEF IInv, Shapes
    <3>4. CASE t = s /\ n <= slots[i]
      <4>1. perSite'[t] = perSite[t] - slots[i] + n BY <1>2, <2>1, <3>4 DEF IInv, Shapes
      <4> QED BY <2>1, <3>1, <3>2, <3>4, <4>1
    <3>5. CASE t = s /\ ~(n <= slots[i])
      <4>1. perSite'[t] = perSite[t] - slots[i] + n BY <1>2, <2>1, <3>5 DEF IInv, Shapes
      <4>2. pump.own[s] \in PassCaps(s) BY <1>2, <3>5 DEF IInv, Widths
      <4>3. perSite'[t] <= pump.own[s] BY <1>2, <2>1, <3>5, <4>1
      <4> QED BY <3>5, <4>2, <4>3
    <3> QED BY <3>3, <3>4, <3>5
  <2> QED BY <2>2, <2>3 DEF Ceilings, PassCaps
<1> QED BY <1>1, <1>2 DEF Recounts

\* The types are kept.
LEMMA ShapesStep ==
  ASSUME IInv, [Next]_vars
  PROVE  Shapes' /\ scene' = scene
<1> USE DEF IInv, Shapes
<1> USE DEF rowVars, memVars, runVars, States, Stages, Frame
<1>0. MaxAttempts \in Nat \ {0} BY AdmissionAssumption
<1>1. CASE UNCHANGED vars BY <1>1 DEF vars
<1>2. CASE PumpList BY <1>2 DEF PumpList
<1>3. CASE PumpLook BY <1>3 DEF PumpLook
<1>4. CASE PumpAdmit
  <2>1. First \in Ids BY <1>4, NextRow DEF PumpAdmit
  <2> DEFINE s == SiteOf(First)  n == ClampToGranted(s, pump.want)
  <2>2. s \in Sites BY <2>1, SceneTypes
  <2>3. n \in Nat BY <1>4, <2>1, <2>2, ClampKeeps DEF PumpAdmit, Pass, Passes, Widths
  <2>4. granted' \in [Sites -> Nat] /\ fresh' \subseteq Sites BY <1>4 DEF PumpAdmit
  <2>5. slots' \in [Ids -> Nat] /\ perSite' \in [Sites -> Int] /\ activeN' \in Int
    BY <1>4, <2>1, <2>2, <2>3 DEF PumpAdmit
  <2>6. UNCHANGED <<budget, rowVars, runVars, scene>> BY <1>4 DEF PumpAdmit
  <2> QED BY <2>4, <2>5, <2>6
<1>5. CASE PumpClaim
  <2>1. First \in Ids BY <1>5, NextRow DEF PumpClaim
  <2> QED BY <1>5, <2>1 DEF PumpClaim
<1>6. CASE PumpLoseClaim
  <2>1. First \in Ids BY <1>6, NextRow DEF PumpLoseClaim
  <2>2. SiteOf(First) \in Sites BY <2>1, SceneTypes
  <2> QED BY <1>6, <2>1, <2>2 DEF PumpLoseClaim, DropReservation
<1>7. ASSUME NEW i \in Ids, RunTransfer(i) PROVE Shapes' /\ scene' = scene
  <2> USE DEF Goto
  <2>1. CASE DialOne(i) BY <2>1 DEF DialOne
  <2>2. CASE DialRefused(i) BY <2>2 DEF DialRefused
  <2>3. CASE Resize(i)
    <3>1. SiteOf(i) \in Sites BY SceneTypes
    <3> QED BY <2>3, <3>1 DEF Resize
  <2>4. CASE ChunkPlan(i) BY <2>4 DEF ChunkPlan
  <2>5. CASE Completes(i) BY <2>5 DEF Completes
  <2>6. CASE CopyFails(i) BY <2>6 DEF CopyFails
  <2>7. CASE Settles(i)
    <3>1. attempt[i] + 1 < MaxAttempts => attempt[i] + 1 \in 0..(MaxAttempts - 1) BY <1>0
    <3>2. attempt' \in [Ids -> 0..(MaxAttempts - 1)] BY <2>7, <3>1 DEF Settles
    <3> QED BY <2>7, <3>2 DEF Settles
  <2>8. CASE CloseAll(i) BY <2>8 DEF CloseAll
  <2>9. CASE Release(i)
    <3>1. SiteOf(i) \in Sites BY SceneTypes
    <3> QED BY <2>9, <3>1 DEF Release, DropReservation
  <2> QED BY <1>7, <2>1, <2>2, <2>3, <2>4, <2>5, <2>6, <2>7, <2>8, <2>9 DEF RunTransfer
<1>8. CASE Environment
  <2>1. CASE SetBudget BY <2>1 DEF SetBudget
  <2>2. ASSUME NEW i \in Ids, BackoffElapses(i) PROVE Shapes' /\ scene' = scene
    BY <2>2 DEF BackoffElapses
  <2>3. ASSUME NEW i \in Ids, Enqueue(i) PROVE Shapes' /\ scene' = scene
    BY <1>0, <2>3 DEF Enqueue
  <2>4. ASSUME NEW i \in Ids, Withdraw(i) PROVE Shapes' /\ scene' = scene
    BY <2>4 DEF Withdraw
  <2>5. ASSUME NEW s \in Sites, GrantExpires(s) PROVE Shapes' /\ scene' = scene
    BY <2>5 DEF GrantExpires
  <2> QED BY <1>8, <2>1, <2>2, <2>3, <2>4, <2>5 DEF Environment
<1> QED BY <1>1, <1>2, <1>3, <1>4, <1>5, <1>6, <1>7, <1>8 DEF Next, Pump

\* Going on to the next row keeps what the pass has read.
LEMMA OnwardKeeps ==
  ASSUME IInv, pump.at # "idle", NEW b \in SUBSET (Sites \X Dirs), pump' = Onward(b),
         scene' = scene
  PROVE  Pass' /\ pump'.at \in {"idle", "look"}
<1>1. First \in pump.todo BY NextRow DEF IInv
<1>2. CASE pump.todo = {First}
  <2>1. pump' = Idle BY <1>2 DEF Onward
  <2>2. pump'.at = "idle" /\ \A s \in Sites : pump'.own[s] = -1 BY <2>1 DEF Idle
  <2>3. pump' \in Passes BY <2>1 DEF Idle, Passes
  <2> QED BY <2>2, <2>3 DEF Pass
<1>3. CASE pump.todo # {First}
  <2>1. /\ pump'.at = "look" /\ pump'.todo = pump.todo \ {First} /\ pump'.own = pump.own
        /\ pump'.want = pump.want /\ pump'.global = pump.global /\ pump'.def = pump.def
    BY <1>3 DEF Onward, IInv, Pass, Passes
  <2>2. pump'.todo # {} BY <1>1, <1>3, <2>1
  <2>3. pump' \in Passes BY <1>3 DEF Onward, IInv, Pass, Passes
  <2> QED BY <2>1, <2>2, <2>3 DEF IInv, Pass, PassCaps
<1> QED BY <1>2, <1>3

\* What a pass has read is of the scene, and there is a row as long as it goes on.
LEMMA PassStep ==
  ASSUME IInv, [Next]_vars, scene' = scene
  PROVE  Pass'
<1> USE DEF IInv
<1>1. ASSUME pump' = pump PROVE Pass'
  BY <1>1 DEF Pass, PassCaps
<1>2. CASE PumpList
  <2> DEFINE due == {i \in Ids : state[i] = "pending" /\ ~backoff[i]}
  <2>1. /\ due # {} /\ due \in SUBSET Ids
        /\ pump' = [Idle EXCEPT !.at = "look", !.todo = due, !.global = budget.global,
                                !.def = budget.def]
    BY <1>2 DEF PumpList
  <2>2. budget \in scene.budgets /\ budget.global \in Nat /\ budget.def \in Nat
    BY SceneTypes DEF Shapes
  <2>3. pump' = [at |-> "look", todo |-> due, global |-> budget.global, def |-> budget.def,
                 own |-> [s \in Sites |-> -1], blocked |-> {}, want |-> 0]
    BY <2>1 DEF Idle
  <2> HIDE DEF due
  <2>a. [s \in Sites |-> -1] \in [Sites -> Int] OBVIOUS
  <2>b. /\ "look" \in {"idle", "look", "admit", "claim"} /\ 0 \in Nat
        /\ {} \in SUBSET (Sites \X Dirs) /\ due \in SUBSET Ids
        /\ budget.global \in Nat /\ budget.def \in Nat
    BY <2>1, <2>2
  <2>4. pump' \in Passes
    <3> DEFINE none == [s \in Sites |-> -1]
    <3> HIDE DEF none
    <3>1. none \in [Sites -> Int] BY <2>a DEF none
    <3>2. pump' = [at |-> "look", todo |-> due, global |-> budget.global, def |-> budget.def,
                   own |-> none, blocked |-> {}, want |-> 0]
      BY <2>3 DEF none
    <3> QED BY <2>b, <3>1, <3>2 DEF Passes
  <2>5. /\ pump'.todo = due /\ pump'.global = budget.global /\ pump'.def = budget.def
        /\ \A s \in Sites : pump'.own[s] = -1
    BY <2>3
  <2> QED BY <2>1, <2>2, <2>4, <2>5 DEF Pass
<1>3. CASE PumpLook
  <2>1. First \in Ids BY <1>3, NextRow DEF PumpLook
  <2>2. CASE Blocked(First)
    <3>1. pump' = Onward(pump.blocked) BY <1>3, <2>2 DEF PumpLook, Skip
    <3>2. pump.blocked \in SUBSET (Sites \X Dirs) BY DEF Pass, Passes
    <3> QED BY <1>3, <3>1, <3>2, OnwardKeeps DEF PumpLook
  <2>3. CASE ~Blocked(First)
    <3> DEFINE s == SiteOf(First)
               cap == IF pump.own[s] >= 0 THEN pump.own[s]
                      ELSE IF budget.own[s] > 0 THEN budget.own[s] ELSE pump.def
    <3>1. pump' = [pump EXCEPT !.at = "admit", !.own[s] = cap, !.want = StreamsFor(First, cap)]
      BY <1>3, <2>3 DEF PumpLook
    <3>2. s \in Sites BY <2>1, SceneTypes DEF Shapes
    <3>3. cap \in PassCaps(s)
      <4>1. CASE pump.own[s] >= 0 BY <3>2, <4>1 DEF Pass
      <4>2. CASE ~(pump.own[s] >= 0)
        <5>1. budget \in scene.budgets BY DEF Shapes
        <5>2. PICK c \in scene.budgets : pump.def = c.def BY <1>3 DEF Pass, PumpLook
        <5> QED BY <3>2, <4>2, <5>1, <5>2, CapsArePositive DEF Shapes
      <4> QED BY <4>1, <4>2
    <3> HIDE DEF cap
    <3>4. cap \in Nat BY <3>2, <3>3, CapsArePositive DEF Shapes
    <3>5. StreamsFor(First, cap) \in Nat BY <2>1, <3>3, WidthGiven DEF Shapes
    <3>6. pump'.own = [pump.own EXCEPT ![s] = cap] BY <3>1 DEF Pass, Passes
    <3>7. pump' \in Passes
      <4>0. pump.own \in [Sites -> Int] /\ cap \in Int BY <3>4 DEF Pass, Passes
      <4>1. [pump.own EXCEPT ![s] = cap] \in [Sites -> Int] BY <4>0
      <4>2. pump' = [pump EXCEPT !.at = "admit", !.own = [pump.own EXCEPT ![s] = cap],
                                 !.want = StreamsFor(First, cap)]
        BY <3>1
      <4> QED BY <3>5, <4>1, <4>2 DEF Pass, Passes
    <3>8. \A t \in Sites : pump'.own[t] = -1 \/ pump'.own[t] \in PassCaps(t)
      BY <3>2, <3>3, <3>6 DEF Pass, Passes
    <3>9. /\ pump.at = "look" /\ pump'.todo = pump.todo /\ pump'.global = pump.global
          /\ pump'.def = pump.def
      BY <1>3, <3>1 DEF PumpLook, Pass, Passes
    <3> QED BY <3>7, <3>8, <3>9 DEF Pass, PassCaps
  <2> QED BY <2>2, <2>3
<1>4. CASE PumpAdmit
  <2>1. CASE pump' = [pump EXCEPT !.at = "claim"]
    <3>1. pump' \in Passes BY <2>1 DEF Pass, Passes
    <3>2. /\ pump.at = "admit" /\ pump'.todo = pump.todo /\ pump'.global = pump.global
          /\ pump'.def = pump.def /\ pump'.own = pump.own
      BY <1>4, <2>1 DEF PumpAdmit, Pass, Passes
    <3> QED BY <3>1, <3>2 DEF Pass, PassCaps
  <2>2. CASE pump' # [pump EXCEPT !.at = "claim"]
    <3>1. First \in Ids BY <1>4, NextRow DEF PumpAdmit
    <3>2. LaneGroup(First) \in Sites \X Dirs BY <3>1, SceneTypes DEF LaneGroup, Shapes
    <3>3. \/ pump' = Onward(pump.blocked)
          \/ pump' = Onward(pump.blocked \cup {LaneGroup(First)})
      BY <1>4, <2>2 DEF PumpAdmit, Skip
    <3>4. /\ pump.blocked \in SUBSET (Sites \X Dirs)
          /\ pump.blocked \cup {LaneGroup(First)} \in SUBSET (Sites \X Dirs)
      BY <3>2 DEF Pass, Passes
    <3> QED BY <1>4, <3>3, <3>4, OnwardKeeps DEF PumpAdmit
  <2> QED BY <2>1, <2>2
<1>5. CASE PumpClaim \/ PumpLoseClaim
  <2>1. pump' = Onward(pump.blocked) /\ pump.at = "claim"
    BY <1>5 DEF PumpClaim, PumpLoseClaim, Skip
  <2>2. pump.blocked \in SUBSET (Sites \X Dirs) BY DEF Pass, Passes
  <2> QED BY <2>1, <2>2, OnwardKeeps
<1>6. ASSUME NEW i \in Ids, RunTransfer(i) PROVE pump' = pump
  BY <1>6 DEF RunTransfer, DialOne, DialRefused, Resize, ChunkPlan, Completes, CopyFails, Settles,
              CloseAll, Release
<1>7. CASE Environment
  <2>1. pump' = pump
    BY <1>7 DEF Environment, SetBudget, BackoffElapses, Enqueue, Withdraw, GrantExpires
  <2> QED BY <1>1, <2>1
<1>8. CASE UNCHANGED vars BY <1>1, <1>8 DEF vars
<1> QED BY <1>1, <1>2, <1>3, <1>4, <1>5, <1>6, <1>7, <1>8 DEF Next, Pump

\* A runner goes on holding what it needs, and nobody else takes it.
LEMMA RunsStep ==
  ASSUME IInv, [Next]_vars
  PROVE  Runs'
<1> USE DEF IInv
<1> USE DEF rowVars, memVars, runVars
<1>0. \A i \in Ids : /\ slots[i] \in Nat /\ asked[i] \in Nat /\ conns[i] \in Nat /\ RunOf(i)
                     /\ at[i] \in Stages
  BY DEF Shapes, Runs
<1>1. ASSUME UNCHANGED <<slots, runVars>> PROVE Runs'
  BY <1>0, <1>1 DEF Runs, RunOf
<1>2. CASE UNCHANGED vars BY <1>1, <1>2 DEF vars
<1>3. CASE PumpList \/ PumpLook BY <1>1, <1>3 DEF PumpList, PumpLook
<1>4. CASE PumpAdmit
  <2>1. UNCHANGED runVars BY <1>4 DEF PumpAdmit
  <2>2. CASE UNCHANGED slots BY <1>1, <2>1, <2>2
  <2>3. CASE ~UNCHANGED slots
    <3> DEFINE n == ClampToGranted(SiteOf(First), pump.want)
    <3>1. First \in Ids BY <1>4, NextRow DEF PumpAdmit
    <3>2. slots' = [slots EXCEPT ![First] = n] /\ First \notin Registered
      BY <1>4, <2>3 DEF PumpAdmit
    <3>3. slots[First] = 0 BY <1>0, <3>1, <3>2 DEF Registered
    <3>4. SiteOf(First) \in Sites BY <3>1, SceneTypes DEF Shapes
    <3>5. n \in Nat
      BY <1>4, <3>1, <3>4, ClampKeeps DEF PumpAdmit, Pass, Passes, Widths, Shapes
    <3> HIDE DEF n
    <3>6. at[First] = "none" /\ conns[First] = 0 BY <1>0, <3>1, <3>3 DEF RunOf
    <3>7. ASSUME NEW j \in Ids PROVE RunOf(j)'
      BY <1>0, <2>1, <3>1, <3>2, <3>5, <3>6 DEF RunOf, Shapes
    <3> QED BY <3>7 DEF Runs
  <2> QED BY <2>2, <2>3
<1>5. CASE PumpClaim
  <2>1. First \in Ids BY <1>5, NextRow DEF PumpClaim
  <2>2. slots[First] >= 1 /\ at[First] = "none" BY <1>5 DEF PumpClaim, Widths
  <2>3. /\ at' = [at EXCEPT ![First] = "dial"] /\ asked' = [asked EXCEPT ![First] = slots[First]]
        /\ conns' = conns /\ slots' = slots
    BY <1>5 DEF PumpClaim
  <2>4. ASSUME NEW j \in Ids PROVE RunOf(j)'
    BY <1>0, <2>1, <2>2, <2>3 DEF RunOf, Shapes
  <2> QED BY <2>4 DEF Runs
<1>6. CASE PumpLoseClaim
  <2>1. First \in Ids BY <1>6, NextRow DEF PumpLoseClaim
  <2>2. at[First] = "none" /\ conns[First] = 0 BY <1>0, <1>6, <2>1 DEF PumpLoseClaim, Widths, RunOf
  <2>3. slots' = [slots EXCEPT ![First] = 0] /\ UNCHANGED runVars
    BY <1>6 DEF PumpLoseClaim, DropReservation
  <2>4. ASSUME NEW j \in Ids PROVE RunOf(j)'
    BY <1>0, <2>1, <2>2, <2>3 DEF RunOf, Shapes
  <2> QED BY <2>4 DEF Runs
<1>7. ASSUME NEW i \in Ids, RunTransfer(i) PROVE Runs'
  <2>1. ASSUME NEW j \in Ids \ {i} PROVE RunOf(j)'
    <3>1. slots'[j] = slots[j] /\ at'[j] = at[j] /\ asked'[j] = asked[j] /\ conns'[j] = conns[j]
      BY <1>7, <2>1 DEF RunTransfer, DialOne, DialRefused, Resize, ChunkPlan, Completes, CopyFails,
                  Settles, CloseAll, Release, DropReservation, Goto, Shapes
    <3> QED BY <1>0, <2>1, <3>1 DEF RunOf
  <2>2. RunOf(i)'
    <3> USE <1>0
    <3> USE DEF RunOf, Shapes, Goto
    <3>1. CASE DialOne(i) BY <3>1 DEF DialOne
    <3>2. CASE DialRefused(i) BY <3>2 DEF DialRefused
    <3>3. CASE Resize(i) BY <3>3 DEF Resize
    <3>4. CASE ChunkPlan(i) BY <3>4 DEF ChunkPlan
    <3>5. CASE Completes(i) BY <3>5 DEF Completes
    <3>6. CASE CopyFails(i) BY <3>6 DEF CopyFails
    <3>7. CASE Settles(i) BY <3>7 DEF Settles
    <3>8. CASE CloseAll(i) BY <3>8 DEF CloseAll
    <3>9. CASE Release(i) BY <3>9 DEF Release, DropReservation
    <3> QED BY <1>7, <3>1, <3>2, <3>3, <3>4, <3>5, <3>6, <3>7, <3>8, <3>9 DEF RunTransfer
  <2> QED BY <2>1, <2>2 DEF Runs
<1>8. CASE Environment
  BY <1>1, <1>8 DEF Environment, SetBudget, BackoffElapses, Enqueue, Withdraw, GrantExpires
<1> QED BY <1>2, <1>3, <1>4, <1>5, <1>6, <1>7, <1>8 DEF Next, Pump

\* Widths go on telling large files from small ones, from the pass to the end of the run.
LEMMA WidthsStep ==
  ASSUME IInv, [Next]_vars, scene' = scene
  PROVE  Widths'
<1> USE DEF IInv
<1> USE DEF rowVars, memVars, runVars
<1>0. \A i, n : Allows(i, n)' <=> Allows(i, n') BY DEF Allows, Large, TwoAllowed, PassCaps, SiteOf
<1>a. \A s : PassCaps(s)' = PassCaps(s) /\ \A i : SiteOf(i)' = SiteOf(i)
  BY DEF PassCaps, SiteOf
<1>1. ASSUME UNCHANGED <<pump, slots, runVars>> PROVE Widths'
  <2>1. First' = First BY <1>1 DEF First
  <2> QED BY <1>0, <1>a, <1>1, <2>1 DEF Widths
<1>2. CASE UNCHANGED vars BY <1>1, <1>2 DEF vars
<1> DEFINE Asks(i) == at[i] # "none" => Allows(i, asked[i])
<1>3. ASSUME UNCHANGED runVars, pump'.at \in {"idle", "look"} PROVE Widths'
  BY <1>3 DEF Widths, Allows, Large, TwoAllowed, PassCaps, SiteOf
<1>4. CASE PumpList
  <2>1. pump'.at = "look" BY <1>4 DEF PumpList, Idle
  <2> QED BY <1>3, <1>4, <2>1 DEF PumpList
<1>5. ASSUME UNCHANGED runVars, pump.at # "idle", NEW b \in SUBSET (Sites \X Dirs), pump' = Onward(b)
      PROVE  Widths'
  BY <1>3, <1>5, OnwardKeeps
<1>6. pump.blocked \in SUBSET (Sites \X Dirs) BY DEF Pass, Passes
<1>7. CASE PumpLook
  <2>1. First \in Ids BY <1>7, NextRow DEF PumpLook
  <2>2. UNCHANGED runVars BY <1>7 DEF PumpLook
  <2>3. CASE Blocked(First)
    BY <1>5, <1>6, <1>7, <2>2, <2>3 DEF PumpLook, Skip
  <2>4. CASE ~Blocked(First)
    <3> DEFINE s == SiteOf(First)
               cap == IF pump.own[s] >= 0 THEN pump.own[s]
                      ELSE IF budget.own[s] > 0 THEN budget.own[s] ELSE pump.def
    <3>1. pump' = [pump EXCEPT !.at = "admit", !.own[s] = cap, !.want = StreamsFor(First, cap)]
      BY <1>7, <2>4 DEF PumpLook
    <3>2. s \in Sites BY <2>1, SceneTypes DEF Shapes
    <3>3. cap \in PassCaps(s)
      <4>1. CASE pump.own[s] >= 0 BY <3>2, <4>1 DEF Pass
      <4>2. CASE ~(pump.own[s] >= 0)
        <5>1. budget \in scene.budgets BY DEF Shapes
        <5>2. PICK c \in scene.budgets : pump.def = c.def BY <1>7 DEF Pass, PumpLook
        <5> QED BY <3>2, <4>2, <5>1, <5>2, CapsArePositive DEF Shapes
      <4> QED BY <4>1, <4>2
    <3> HIDE DEF cap
    <3>4. StreamsFor(First, cap) >= 1 /\ Allows(First, StreamsFor(First, cap))
      BY <2>1, <3>3, WidthGiven DEF Shapes
    <3>5. /\ pump'.at = "admit" /\ pump'.todo = pump.todo
          /\ pump'.want = StreamsFor(First, cap) /\ pump'.own = [pump.own EXCEPT ![s] = cap]
      BY <3>1 DEF Pass, Passes
    <3>6. pump'.own[s] = cap BY <3>2, <3>5 DEF Pass, Passes
    <3>7. First' = First BY <3>5 DEF First
    <3>8. pump'.want >= 1 /\ Allows(First, pump'.want) BY <3>4, <3>5
    <3>9. \A i \in Ids : Asks(i)' BY <1>0, <2>2 DEF Widths
    <3> QED BY <1>0, <1>a, <3>3, <3>5, <3>6, <3>7, <3>8, <3>9 DEF Widths
  <2> QED BY <2>3, <2>4
<1>8. CASE PumpAdmit
  <2>1. First \in Ids BY <1>8, NextRow DEF PumpAdmit
  <2>2. UNCHANGED runVars BY <1>8 DEF PumpAdmit
  <2> DEFINE n == ClampToGranted(SiteOf(First), pump.want)
  <2>3. CASE slots' = [slots EXCEPT ![First] = n] /\ pump' = [pump EXCEPT !.at = "claim"]
             /\ First \notin Registered
    <3>1. SiteOf(First) \in Sites BY <2>1, SceneTypes DEF Shapes
    <3>2. n \in Nat /\ n >= 1 /\ Allows(First, n)
      BY <1>8, <2>1, <3>1, ClampKeeps DEF PumpAdmit, Pass, Passes, Widths, Shapes
    <3> HIDE DEF n
    <3>3. pump'.at = "claim" /\ First' = First BY <2>3 DEF Pass, Passes, First
    <3>4. slots'[First] = n /\ slots[First] = 0 BY <2>1, <2>3 DEF Registered, Shapes
    <3>5. at'[First] = "none" BY <2>1, <2>2, <3>4 DEF Runs, RunOf
    <3>6. \A i \in Ids : Asks(i)' BY <1>0, <2>2 DEF Widths
    <3> QED BY <1>0, <3>2, <3>3, <3>4, <3>5, <3>6 DEF Widths
  <2>4. CASE Skip BY <1>5, <1>6, <1>8, <2>2, <2>4 DEF PumpAdmit, Skip
  <2>5. CASE pump' = Onward(pump.blocked \cup {LaneGroup(First)})
    <3>1. LaneGroup(First) \in Sites \X Dirs BY <2>1, SceneTypes DEF LaneGroup, Shapes
    <3>2. pump.blocked \cup {LaneGroup(First)} \in SUBSET (Sites \X Dirs) BY <1>6, <3>1
    <3> QED BY <1>5, <1>8, <2>2, <2>5, <3>2 DEF PumpAdmit
  <2> QED BY <1>8, <2>3, <2>4, <2>5 DEF PumpAdmit
<1>9. CASE PumpClaim
  <2>1. First \in Ids BY <1>9, NextRow DEF PumpClaim
  <2>2. pump'.at \in {"idle", "look"} BY <1>6, <1>9, OnwardKeeps DEF PumpClaim, Skip
  <2>3. /\ at' = [at EXCEPT ![First] = "dial"] /\ asked' = [asked EXCEPT ![First] = slots[First]]
        /\ Allows(First, slots[First])
    BY <1>9 DEF PumpClaim, Widths
  <2>4. \A i \in Ids : Asks(i)' BY <1>0, <2>1, <2>3 DEF Widths, Shapes
  <2> QED BY <2>2, <2>4 DEF Widths
<1>10. CASE PumpLoseClaim BY <1>5, <1>6, <1>10 DEF PumpLoseClaim, Skip
<1>11. ASSUME NEW i \in Ids, RunTransfer(i) PROVE Widths'
  <2>1. pump' = pump /\ at[i] # "none"
    BY <1>11 DEF RunTransfer, DialOne, DialRefused, Resize, ChunkPlan, Completes, CopyFails,
                 Settles, CloseAll, Release
  <2>2. First' = First BY <2>1 DEF First
  <2>3. \/ at'[i] = "none" \/ asked'[i] = asked[i]
    BY <1>11 DEF RunTransfer, DialOne, DialRefused, Resize, ChunkPlan, Completes, CopyFails,
                 Settles, CloseAll, Release, Goto, Shapes
  <2>4. ASSUME NEW j \in Ids \ {i}
        PROVE  at'[j] = at[j] /\ asked'[j] = asked[j] /\ slots'[j] = slots[j]
    BY <1>11 DEF RunTransfer, DialOne, DialRefused, Resize, ChunkPlan, Completes, CopyFails,
                 Settles, CloseAll, Release, DropReservation, Goto, Shapes
  <2>5. \A j \in Ids : Asks(j)' BY <1>0, <2>1, <2>3, <2>4 DEF Widths
  <2>6. pump.at = "claim" => /\ First \in Ids \ {i} /\ slots[First] >= 1 /\ at[First] = "none"
                             /\ Allows(First, slots[First])
    BY <2>1, NextRow DEF Widths
  <2>7. pump'.at = "claim" => (slots[First] >= 1 /\ at[First] = "none" /\ Allows(First, slots[First]))'
    BY <1>0, <2>1, <2>2, <2>4, <2>6
  <2>8. pump'.at = "admit" => /\ pump'.want >= 1 /\ Allows(First, pump.want)'
                              /\ (pump.own[SiteOf(First)] \in PassCaps(SiteOf(First)))'
    BY <1>0, <1>a, <2>1, <2>2 DEF Widths
  <2> QED BY <2>5, <2>7, <2>8 DEF Widths
<1>12. CASE Environment
  BY <1>1, <1>12 DEF Environment, SetBudget, BackoffElapses, Enqueue, Withdraw, GrantExpires
<1> QED BY <1>2, <1>4, <1>7, <1>8, <1>9, <1>10, <1>11, <1>12 DEF Next, Pump

\* No plan without a large file, and none without a row.
LEMMA PlansStep ==
  ASSUME IInv, [Next]_vars, scene' = scene
  PROVE  Plans'
<1> USE DEF IInv
<1> USE DEF rowVars, memVars, runVars
<1>0. \A i : Large(i)' <=> Large(i) BY DEF Large
<1>1. ASSUME UNCHANGED <<plan, state, at>> PROVE Plans'
  BY <1>0, <1>1 DEF Plans
<1>2. CASE UNCHANGED vars BY <1>1, <1>2 DEF vars
<1>3. CASE PumpList \/ PumpLook \/ PumpAdmit \/ PumpLoseClaim
  BY <1>1, <1>3 DEF PumpList, PumpLook, PumpAdmit, PumpLoseClaim
<1>4. CASE PumpClaim
  <2>1. First \in Ids BY <1>4, NextRow DEF PumpClaim
  <2>2. /\ plan' = plan /\ state' = [state EXCEPT ![First] = "active"]
        /\ at' = [at EXCEPT ![First] = "dial"]
    BY <1>4 DEF PumpClaim
  <2> QED BY <1>0, <2>1, <2>2 DEF Plans, Shapes
<1>5. ASSUME NEW i \in Ids, RunTransfer(i) PROVE Plans'
  <2>0. /\ at[i] # "none" /\ state[i] # "none" /\ \A j \in Ids \ {i} : at'[j] = at[j]
    BY <1>5 DEF RunTransfer, DialOne, DialRefused, Resize, ChunkPlan, Completes, CopyFails,
                Settles, CloseAll, Release, Goto, Shapes, Plans
  <2>1. CASE ChunkPlan(i)
    <3>1. asked[i] >= 2 => Large(i) BY <2>1 DEF ChunkPlan, Widths, Allows
    <3>2. state' = state BY <2>1 DEF ChunkPlan
    <3>3. CASE plan' = plan BY <1>0, <2>0, <3>2, <3>3 DEF Plans
    <3>4. CASE plan' = [plan EXCEPT ![i] = asked[i] >= 2 /\ conns[i] >= 2]
      <4>1. plan'[i] => asked[i] >= 2 BY <3>4 DEF Shapes
      <4>2. \A j \in Ids \ {i} : plan'[j] = plan[j] BY <3>4 DEF Shapes
      <4> QED BY <1>0, <2>0, <3>1, <3>2, <4>1, <4>2 DEF Plans
    <3> QED BY <2>1, <3>3, <3>4 DEF ChunkPlan
  <2>2. CASE Completes(i)
    <3>1. plan' = [plan EXCEPT ![i] = FALSE] /\ state' = [state EXCEPT ![i] = "completed"]
      BY <2>2 DEF Completes
    <3> QED BY <1>0, <2>0, <3>1 DEF Plans, Shapes
  <2>3. CASE Settles(i)
    <3>1. plan' = plan /\ \A j \in Ids : state[j] # "none" => state'[j] # "none"
      BY <2>3 DEF Settles, Shapes
    <3> QED BY <1>0, <2>0, <3>1 DEF Plans
  <2>4. CASE DialOne(i) \/ DialRefused(i) \/ Resize(i) \/ CopyFails(i) \/ CloseAll(i) \/ Release(i)
    <3>1. UNCHANGED <<plan, state>>
      BY <2>4 DEF DialOne, DialRefused, Resize, CopyFails, CloseAll, Release
    <3> QED BY <1>0, <2>0, <3>1 DEF Plans
  <2> QED BY <1>5, <2>1, <2>2, <2>3, <2>4 DEF RunTransfer
<1>6. CASE Environment
  <2>1. CASE SetBudget BY <1>1, <2>1 DEF SetBudget
  <2>2. ASSUME NEW i \in Ids, BackoffElapses(i) PROVE Plans'
    BY <1>1, <2>2 DEF BackoffElapses
  <2>3. ASSUME NEW i \in Ids, Enqueue(i) PROVE Plans'
    BY <1>0, <2>3 DEF Enqueue, Plans, Shapes
  <2>4. ASSUME NEW i \in Ids, Withdraw(i) PROVE Plans'
    BY <1>0, <2>4 DEF Withdraw, Plans, Shapes
  <2>5. ASSUME NEW s \in Sites, GrantExpires(s) PROVE Plans'
    BY <1>1, <2>5 DEF GrantExpires
  <2> QED BY <1>6, <2>1, <2>2, <2>3, <2>4, <2>5 DEF Environment
<1> QED BY <1>2, <1>3, <1>4, <1>5, <1>6 DEF Next, Pump
-----------------------------------------------------------------------------
(* The theorems.                                                           *)

\* The invariant holds at the start.
LEMMA InitIInv == Init => IInv
<1> SUFFICES ASSUME Init PROVE IInv OBVIOUS
<1> USE DEF Init
<1>0. MaxAttempts \in Nat \ {0} BY AdmissionAssumption
<1>1. Shapes BY <1>0 DEF Shapes, States, Stages
<1>2. Pass
  <2>1. [s \in Sites |-> -1] \in [Sites -> Int] OBVIOUS
  <2>2. pump \in Passes BY <2>1 DEF Idle, Passes
  <2>3. pump.at = "idle" /\ \A s \in Sites : pump.own[s] = -1 BY DEF Idle
  <2> QED BY <2>2, <2>3 DEF Pass
<1>3. Counters
  <2>1. ASSUME NEW T \in SUBSET Ids PROVE Counted(slots, T) = {}
    <3>1. \A i \in T : 1..slots[i] = {} OBVIOUS
    <3> QED BY <3>1 DEF Counted
  <2>2. IsFiniteSet({}) /\ Cardinality({}) = 0 BY FS_EmptySet
  <2>3. \A s \in Sites : RowsOf(s) \in SUBSET Ids BY DEF RowsOf
  <2>4. Counted(slots, Ids) = {} BY <2>1
  <2>5. \A s \in Sites : Counted(slots, RowsOf(s)) = {} BY <2>1, <2>3
  <2>6. activeN = 0 /\ \A s \in Sites : perSite[s] = 0 OBVIOUS
  <2> QED BY <2>2, <2>4, <2>5, <2>6 DEF Counters
<1>4. Runs BY DEF Runs, RunOf
<1>5. Widths BY DEF Widths, Idle
<1>6. Plans BY DEF Plans
<1>7. Ceilings
  <2>1. \E b \in scene.budgets : activeN <= b.global BY SceneTypes
  <2>2. ASSUME NEW s \in Sites PROVE \E cap \in PassCaps(s) : perSite[s] <= cap
    <3>1. PICK cap \in PassCaps(s) : cap \in Nat BY CapsArePositive
    <3> QED BY <3>1
  <2> QED BY <2>1, <2>2 DEF Ceilings
<1> QED BY <1>1, <1>2, <1>3, <1>4, <1>5, <1>6, <1>7 DEF IInv

\* Every step keeps it.
LEMMA StepIInv == IInv /\ [Next]_vars => IInv'
<1> SUFFICES ASSUME IInv, [Next]_vars PROVE IInv' OBVIOUS
<1>1. Shapes' /\ scene' = scene BY ShapesStep
<1>2. Recounts BY OnlyRecounts
<1>3. Pass' BY <1>1, PassStep
<1>4. Counters' /\ Ceilings' BY <1>1, <1>2, CountersStep, CeilingsStep
<1>5. Runs' BY RunsStep
<1>6. Widths' /\ Plans' BY <1>1, WidthsStep, PlansStep
<1> QED BY <1>1, <1>3, <1>4, <1>5, <1>6 DEF IInv

\* The inductive invariant.
THEOREM Invariance == Spec => []IInv
BY InitIInv, StepIInv, PTL DEF Spec

\* Both counters are the sums of the reservations they count, so they come back
\* to zero, and no row is tried more often than the ladder allows.
THEOREM TypeCorrect == Spec => []TypeOK
<1>1. IInv => TypeOK
  BY DEF IInv, Shapes, Counters, TypeOK, States
<1> QED BY <1>1, Invariance, PTL

\* No server sees more connections than the caps the user has set.
THEOREM BudgetIsKept == Spec => []CapsHold
<1>1. ASSUME IInv PROVE CapsHold
  <2>1. \A i \in Ids : conns[i] <= slots[i] /\ conns[i] \in Nat /\ slots[i] \in Nat
    BY <1>1 DEF IInv, Runs, RunOf, Shapes
  <2>2. ASSUME NEW s \in Sites PROVE Open(s) <= perSite[s]
    <3> DEFINE mine == Counted(slots, RowsOf(s))
    <3>1. mine \in SUBSET Counted(slots, Ids) BY DEF Counted, RowsOf
    <3>2. IsFiniteSet(mine) BY <1>1, <3>1, FS_Subset DEF IInv, Counters
    <3>3. Counted(conns, RowsOf(s)) \in SUBSET mine BY <2>1 DEF Counted, RowsOf
    <3>4. perSite[s] = Cardinality(mine) BY <1>1 DEF IInv, Counters
    <3> HIDE DEF mine
    <3> QED BY <3>2, <3>3, <3>4, FS_Subset DEF Open
  <2> QED BY <1>1, <2>1, <2>2 DEF IInv, Ceilings, CapsHold
<1> QED BY <1>1, Invariance, PTL

\* A plan goes only with the finished file, as long as the settings leave its
\* row two connections, however few the server grants.
THEOREM PlansAreKept == Spec => PlanKept
<1> DEFINE Kept == \A i \in Ids :
      plan[i] /\ ~plan'[i] /\ TwoAllowed(i) => "completed" \in {state[i], state'[i]}
<1>1. IInv /\ [Next]_vars => [Kept]_vars
  <2> SUFFICES ASSUME IInv, Next, NEW i \in Ids, plan[i], ~plan'[i], TwoAllowed(i)
               PROVE  "completed" \in {state[i], state'[i]}
    OBVIOUS
  <2> USE DEF rowVars
  <2>1. Large(i) /\ state[i] # "none" BY DEF IInv, Plans
  <2>2. CASE Pump
    BY <2>2 DEF Pump, PumpList, PumpLook, PumpAdmit, PumpClaim, PumpLoseClaim
  <2>3. ASSUME NEW j \in Ids, RunTransfer(j) PROVE "completed" \in {state[i], state'[i]}
    <3>1. CASE ChunkPlan(j)
      <4>1. plan' = plan \/ plan' = [plan EXCEPT ![j] = asked[j] >= 2 /\ conns[j] >= 2]
        BY <3>1 DEF ChunkPlan
      <4>2. i = j /\ ~(asked[j] >= 2 /\ conns[j] >= 2) BY <4>1 DEF IInv, Shapes
      <4>3. asked[i] >= 2 BY <2>1, <3>1, <4>2 DEF ChunkPlan, IInv, Widths, Allows
      <4>4. conns[i] \in Nat BY DEF IInv, Shapes
      <4> QED BY <3>1, <4>2, <4>3, <4>4 DEF ChunkPlan
    <3>2. CASE Completes(j)
      <4>1. i = j BY <3>2 DEF Completes, IInv, Shapes
      <4> QED BY <3>2, <4>1 DEF Completes, IInv, Shapes
    <3> QED BY <2>3, <3>1, <3>2 DEF RunTransfer, DialOne, DialRefused, Resize, CopyFails, Settles,
                                    CloseAll, Release
  <2>4. CASE Environment
    <3>1. PICK j \in Ids : Enqueue(j)
      BY <2>4 DEF Environment, SetBudget, BackoffElapses, Withdraw, GrantExpires
    <3>2. i = j BY <3>1 DEF Enqueue, IInv, Shapes
    <3>3. i \notin scene.stream BY <2>1, SceneTypes DEF IInv, Shapes
    <3> QED BY <2>1, <3>1, <3>2, <3>3 DEF Enqueue
  <2> QED BY <2>2, <2>3, <2>4 DEF Next
<1> QED BY <1>1, Invariance, PTL DEF Spec, PlanKept
=============================================================================
