--------------------------- MODULE EnginesProofs ---------------------------
(***************************************************************************)
(* Theorems about Engines, for every number of rows, file size and number  *)
(* of lanes, and every scene.                                              *)
(*                                                                         *)
(* 1. A plan that PlanChunks makes tiles the file (PlanTiles), and no      *)
(*    checkpoint moves a range: TypeInv, from which EngineTypes.           *)
(* 2. What a lane has copied beyond its checkpoint is the source's, and on *)
(*    a download's disk before the checkpoint claims it: Copied, Durable.  *)
(*    With the tags that tell one version of a source from another (Tags)  *)
(*    and what an attempt may assume before it opens the part (Before)     *)
(*    this is KeepInv, from which ResumableBytesAreKept.                   *)
(* 3. Where one row has the destination to itself, what the part holds and *)
(*    what the plan claims are the source's (Sole), and Publish gives the  *)
(*    name to nothing less than the file: UndisturbedFilesAreWhole.        *)
(***************************************************************************)
EXTENDS Engines, FiniteSetTheorems, TLAPS

-----------------------------------------------------------------------------
(* The inductive invariant.                                                *)

Stages == {"none", "plan", "changed", "ranges", "clear", "unplan", "open", "copy", "lost",
           "lostpart", "publish", "published"}
SourceRec == [tag : Nat, len : Nat, mtime : Nat]
RowRec == [open : BOOLEAN, mtime : Nat, plan : Seq(RangeRec)]
PartRec == [here : BOOLEAN, data : Seq(Nat), stamp : Nat]
ChunkRec == [here : BOOLEAN, data : Seq(Nat), disk : Seq(Nat)]
LaneRec == [at : LaneAt, done : Nat, last : BOOLEAN, failed : BOOLEAN]
RunRec == [row : Rows \cup {0}, at : Stages, asked : Nat, got : Nat, mtime : Nat,
           chunked : BOOLEAN, blind : BOOLEAN, stop : BOOLEAN, dead : BOOLEAN,
           adopted : BOOLEAN, lanes : Seq(LaneRec)]

\* The ranges of a plan do not overlap, and leave nothing out.
Apart(plan) == \A i, j \in DOMAIN plan : i < j => plan[i].off + plan[i].len <= plan[j].off
Covers(plan) ==
  \A c \in 1..Size : \E i \in DOMAIN plan : c \in (plan[i].off + 1)..(plan[i].off + plan[i].len)
GoodPlan(plan) == plan \in Seq(RangeRec) /\ Usable(plan, Size) /\ Apart(plan) /\ Covers(plan)
Plan == row[run.row].plan

Types ==
  /\ scene \in Scenes
  /\ source \in [Rows -> SourceRec] /\ row \in [Rows -> RowRec]
  /\ wspart \in PartRec /\ wschunk \in ChunkRec /\ final \in Seq(Nat)
  /\ run \in RunRec
  /\ faults \in 0..scene.faults /\ clock \in Nat \ {0, 1}

Plans == \A r \in Rows : row[r].plan # <<>> => GoodPlan(row[r].plan)

\* The chunk part has the planned size, on disk as for a reader.
PartSize ==
  /\ Len(wschunk.data) = IF wschunk.here THEN Size ELSE 0
  /\ Len(wschunk.disk) = Len(wschunk.data)

\* Where a chunked attempt has its plan, its lanes and a source of the planned size.
Stage ==
  /\ run.row = 0 => run = NoRun
  /\ run.row # 0 => run.at # "none"
  /\ run.chunked => run.at \in {"clear", "open", "copy", "lost", "lostpart", "publish", "published"}
  /\ run.lanes # <<>> => run.chunked /\ run.at \in {"copy", "publish", "published"}
  /\ run.chunked \/ run.at = "ranges" => source[run.row].len = Size
  /\ run.chunked /\ run.at \in {"clear", "open", "copy"} => Plan # <<>>
  /\ run.chunked /\ run.at = "copy" =>
       /\ DOMAIN run.lanes = DOMAIN Plan
       /\ \A i \in DOMAIN run.lanes : run.lanes[i].done <= Plan[i].len
  /\ ~run.chunked /\ run.at = "copy" => Len(wspart.data) <= source[run.row].len

TypeInv == Types /\ Plans /\ PartSize /\ Stage

\* Each source has a tag of its own, that no file holds before it is copied.
Tags ==
  LET made == Cardinality(Rows) + clock IN
  /\ \A r \in Rows : source[r].tag \in 1..(made - 1)
  /\ \A r, q \in Rows : r # q => source[r].tag # source[q].tag
  /\ \A c \in DOMAIN wschunk.data : wschunk.data[c] < made
  /\ \A c \in DOMAIN wschunk.disk : wschunk.disk[c] < made

\* Before the lanes: the plan as the attempt found it, and gone where it is not used.
Before ==
  /\ run.at = "plan" => run.mtime = row[run.row].mtime
  /\ run.at \in {"changed", "lostpart"} => Plan = <<>>
  /\ run.at \in {"clear", "unplan"} /\ ~run.chunked /\ ~run.blind /\ run.asked >= 2
       => ~HasChunkProgress(Plan)
  /\ run.at = "lost" /\ ~run.dead => ~Resumable(run.row)
  /\ run.at \in {"open", "copy", "publish", "published"} /\ run.row # 0 /\ ~run.chunked
       => Plan = <<>>
  /\ run.at = "published" /\ run.chunked => ~wschunk.here

\* What a lane has copied beyond its checkpoint is there, and on a download's
\* disk before the checkpoint is written.
Fresh(i) == (Plan[i].off + Plan[i].done + 1)..(Plan[i].off + run.lanes[i].done)
Copied ==
  run.chunked /\ run.at = "copy" =>
    /\ \A i \in DOMAIN run.lanes : Plan[i].done <= run.lanes[i].done
    /\ ~run.dead =>
         /\ wschunk.here
         /\ \A i \in DOMAIN run.lanes : \A c \in Fresh(i) :
              /\ wschunk.data[c] = source[run.row].tag
              /\ Download /\ run.lanes[i].at = "mark" => wschunk.disk[c] = source[run.row].tag

\* What a download's row claims and a reader sees, a crash does not take.
Durable ==
  Download =>
    /\ ~run.dead
    /\ \A r \in Rows : \A i \in DOMAIN row[r].plan : \A c \in Claimed(row[r].plan[i]) :
         wschunk.here /\ wschunk.data[c] = source[r].tag => wschunk.disk[c] = source[r].tag

KeepInv == TypeInv /\ Tags /\ Before /\ Copied /\ Durable

-----------------------------------------------------------------------------
(* The chunk plan.                                                         *)

\* Multiplication by a natural keeps the order.
LEMMA TimesKeepsOrder ==
  ASSUME NEW a \in Nat, NEW b \in Nat, NEW c \in Nat, a <= b
  PROVE  a * c \in Nat /\ a * c <= b * c
OBVIOUS

\* An n-th of a file, n times, is not longer than the file.
LEMMA EqualShares ==
  ASSUME NEW size \in Nat, NEW n \in Nat \ {0}
  PROVE  size \div n \in Nat /\ n * (size \div n) <= size
OBVIOUS

\* A cell lies in the share that its number divided by the share's length gives.
LEMMA ShareOfCell ==
  ASSUME NEW c \in Nat, NEW each \in Nat \ {0}
  PROVE  /\ c \div each \in Nat
         /\ (c \div each) * each <= c
         /\ c < (c \div each) * each + each
OBVIOUS

\* PlanChunks makes no plan or a good one, with nothing done (chunks.go:19-20:
\* contiguous ranges, the last of which absorbs the remainder).
LEMMA PlanTiles ==
  ASSUME NEW n \in Nat
  PROVE  LET made == PlanChunks(Size, n)
         IN made = <<>> \/ (GoodPlan(made) /\ Len(made) >= 2 /\ ~HasChunkProgress(made))
<1> DEFINE made == PlanChunks(Size, n)
           each == Size \div n
           off(i) == (i - 1) * each
<1>1. CASE n < 2 \/ each = 0
  BY <1>1 DEF PlanChunks
<1>2. CASE n >= 2 /\ each # 0
  <2>1. Size \in Nat
    BY EngineConstants
  <2>2. each \in Nat /\ each # 0 /\ n * each <= Size
    BY <1>2, <2>1, EqualShares
  <2> HIDE DEF each
  <2>3. \A i \in 1..n : off(i) \in Nat /\ off(i) + each <= Size
    <3> SUFFICES ASSUME NEW i \in 1..n PROVE off(i) \in Nat /\ off(i) + each <= Size
      OBVIOUS
    <3>1. (i - 1) * each \in Nat /\ i * each <= n * each
      BY <2>2, TimesKeepsOrder
    <3>2. i * each = (i - 1) * each + each
      BY <2>2
    <3> QED BY <2>1, <2>2, <3>1, <3>2
  <2>4. \A i \in 2..n : off(i) = off(i - 1) + each
    BY <2>2
  <2>5. off(1) = 0
    BY <2>2
  <2>6. \A i, j \in 1..n : i < j => off(i) + each <= off(j)
    <3> SUFFICES ASSUME NEW i \in 1..n, NEW j \in 1..n, i < j PROVE off(i) + each <= off(j)
      OBVIOUS
    <3>1. i * each <= (j - 1) * each
      BY <2>2, TimesKeepsOrder
    <3>2. i * each = (i - 1) * each + each
      BY <2>2
    <3> QED BY <3>1, <3>2
  <2>7. \A c \in 1..Size : \E q \in Nat : off(q + 1) < c /\ c <= off(q + 1) + each
    <3> SUFFICES ASSUME NEW c \in 1..Size
                 PROVE  \E q \in Nat : off(q + 1) < c /\ c <= off(q + 1) + each
      OBVIOUS
    <3> DEFINE q == (c - 1) \div each
    <3>1. q \in Nat /\ q * each <= c - 1 /\ c - 1 < q * each + each
      BY <2>1, <2>2, ShareOfCell
    <3> HIDE DEF q
    <3>2. off(q + 1) = q * each /\ q * each \in Nat
      BY <2>2, <3>1
    <3> HIDE DEF off
    <3>3. off(q + 1) < c /\ c <= off(q + 1) + each
      BY <2>2, <3>1, <3>2
    <3> QED BY <3>1, <3>3
  <2>8. \A q \in Nat : q + 1 > n => off(n) <= off(q + 1)
    BY <1>2, <2>2, TimesKeepsOrder
  <2>9. made = [i \in 1..n |-> [off |-> off(i), done |-> 0,
                                len |-> IF i = n THEN Size - off(i) ELSE each]]
    BY <1>2 DEF PlanChunks, each
  <2> HIDE DEF made, off
  <2>10. /\ \A i \in 1..n : made[i].off = off(i) /\ made[i].done = 0
         /\ \A i \in 1..n : i # n => made[i].len = each
         /\ made[n].len = Size - off(n)
    BY <1>2, <2>9
  <2>11. made \in Seq(RangeRec) /\ Len(made) = n /\ DOMAIN made = 1..n
    <3>1. \A i \in 1..n : Size - off(i) \in 0..Size /\ off(i) \in 0..Size /\ each \in 0..Size
      BY <2>1, <2>2, <2>3
    <3>2. \A i \in 1..n : [off |-> off(i), done |-> 0,
                            len |-> IF i = n THEN Size - off(i) ELSE each] \in RangeRec
      BY <2>1, <3>1 DEF RangeRec
    <3> QED BY <1>2, <2>9, <3>2
  <2>12. each \in Nat
    BY <2>2
  <2>13. /\ Len(made) = n /\ DOMAIN made = 1..n
         /\ \A i \in 1..n : made[i].off = off(i) /\ made[i].done = 0 /\ off(i) \in Nat
         /\ \A i \in 1..n : made[i].len \in Nat /\ made[i].off + made[i].len <= Size
         /\ \A i \in 1..n : i # n => made[i].len = each
         /\ made[n].off + made[n].len = Size
    <3>1. n \in 1..n /\ made[n].off = off(n) /\ made[n].len = Size - off(n)
      BY <1>2, <2>10
    <3>2. \A i \in 1..n : off(i) \in Nat /\ off(i) + each <= Size
      BY <2>3
    <3>3. made[n].len \in Nat /\ made[n].off + made[n].len = Size
      BY <2>1, <2>12, <3>1, <3>2
    <3>4. \A i \in 1..n : i # n => /\ made[i].off = off(i) /\ made[i].len = each
                                   /\ made[i].off + made[i].len <= Size
      BY <2>10, <3>2
    <3>5. \A i \in 1..n : made[i].len \in Nat /\ made[i].off + made[i].len <= Size
      BY <2>1, <2>12, <3>3, <3>4
    <3> QED BY <2>10, <2>11, <3>2, <3>3, <3>4, <3>5
  <2>14. Usable(made, Size)
    <3>1. n \in Nat /\ n >= 2 /\ n \in 1..n /\ 1 \in 1..n
      BY <1>2
    <3>2. Len(made) >= 2 /\ made[1].off = 0
      BY <2>5, <2>13, <3>1
    <3>3. \A i \in DOMAIN made : made[i].done <= made[i].len
      BY <2>13
    <3>4. \A i \in 2..Len(made) : made[i].off = made[i - 1].off + made[i - 1].len
      <4> SUFFICES ASSUME NEW i \in 2..n PROVE made[i].off = made[i - 1].off + made[i - 1].len
        BY <2>13
      <4>1. i \in 1..n /\ i - 1 \in 1..n /\ i - 1 # n
        BY <3>1
      <4>2. made[i - 1].off = off(i - 1) /\ made[i - 1].len = each /\ made[i].off = off(i)
        BY <2>13, <4>1
      <4> QED BY <2>4, <4>2
    <3> QED BY <2>13, <3>2, <3>3, <3>4 DEF Usable
  <2>15. Apart(made)
    <3> SUFFICES ASSUME NEW i \in 1..n, NEW j \in 1..n, i < j
                 PROVE  made[i].off + made[i].len <= made[j].off
      BY <2>13 DEF Apart
    <3>1. i # n /\ off(i) + each <= off(j)
      BY <1>2, <2>6
    <3>2. made[i].off = off(i) /\ made[i].len = each /\ made[j].off = off(j)
      BY <2>13, <3>1
    <3> QED BY <3>1, <3>2
  <2>16. \A c \in 1..Size : \E i \in 1..n : off(i) < c /\ (i # n => c <= off(i) + each)
    <3> SUFFICES ASSUME NEW c \in 1..Size
                 PROVE  \E i \in 1..n : off(i) < c /\ (i # n => c <= off(i) + each)
      OBVIOUS
    <3>1. PICK q \in Nat : off(q + 1) < c /\ c <= off(q + 1) + each
      BY <2>7
    <3>2. CASE q + 1 <= n
      <4>1. q + 1 \in 1..n
        BY <1>2, <3>2
      <4> QED BY <3>1, <4>1
    <3>3. CASE q + 1 > n
      <4>1. n \in 1..n /\ (n - 1) * each \in Nat /\ off(q + 1) = q * each /\ q * each \in Nat
        BY <1>2, <2>2 DEF off
      <4>2. off(n) < c
        BY <2>1, <2>3, <2>8, <3>1, <3>3, <4>1
      <4> QED BY <4>1, <4>2
    <3> QED BY <1>2, <3>2, <3>3
  <2>17. Covers(made)
    <3> SUFFICES ASSUME NEW c \in 1..Size
                 PROVE  \E i \in 1..n : c \in (made[i].off + 1)..(made[i].off + made[i].len)
      BY <2>13 DEF Covers
    <3>1. PICK i \in 1..n : off(i) < c /\ (i # n => c <= off(i) + each)
      BY <2>16
    <3>2. c <= made[i].off + made[i].len
      BY <2>1, <2>13, <3>1
    <3> QED BY <2>1, <2>13, <3>1, <3>2
  <2>18. ~HasChunkProgress(made)
    BY <2>10, <2>11 DEF HasChunkProgress
  <2> QED BY <1>2, <2>11, <2>14, <2>15, <2>17, <2>18 DEF GoodPlan, made
<1>3. n < 2 \/ each = 0 \/ (n >= 2 /\ each # 0)
  OBVIOUS
<1> QED BY <1>1, <1>2, <1>3

-----------------------------------------------------------------------------
(* Types.                                                                  *)

\* A range ends within the file.
LEMMA RangeEnds ==
  ASSUME NEW plan, GoodPlan(plan), NEW i \in DOMAIN plan
  PROVE  /\ plan[i] \in RangeRec /\ plan[i].off + plan[i].len <= Size
         /\ plan[i].done <= plan[i].len
<1>1. Size \in Nat /\ plan \in Seq(RangeRec) /\ Usable(plan, Size) /\ DOMAIN plan = 1..Len(plan)
  BY EngineConstants DEF GoodPlan
<1>2. \A j \in 1..Len(plan) : plan[j] \in RangeRec
  BY <1>1
<1>3. CASE i = Len(plan)
  BY <1>1, <1>2, <1>3 DEF Usable, RangeRec
<1>4. CASE i # Len(plan)
  <2>1. i + 1 \in 2..Len(plan) /\ (i + 1) - 1 = i
    BY <1>1, <1>4
  <2>2. plan[i + 1].off = plan[i].off + plan[i].len
    BY <1>1, <2>1 DEF Usable
  <2> QED BY <1>1, <1>2, <2>1, <2>2 DEF Usable, RangeRec
<1> QED BY <1>3, <1>4

\* A checkpoint that stays in its range keeps a good plan good.
LEMMA CheckpointKeepsPlan ==
  ASSUME NEW plan, GoodPlan(plan), NEW i \in DOMAIN plan, NEW d \in Nat, d <= plan[i].len,
         NEW next, next = [plan EXCEPT ![i].done = d]
  PROVE  /\ GoodPlan(next) /\ DOMAIN next = DOMAIN plan /\ Len(next) = Len(plan)
         /\ \A j \in DOMAIN plan : next[j].off = plan[j].off /\ next[j].len = plan[j].len
         /\ next[i].done = d
         /\ \A j \in DOMAIN plan : j # i => next[j] = plan[j]
<1>1. Size \in Nat /\ plan \in Seq(RangeRec) /\ Usable(plan, Size) /\ DOMAIN plan = 1..Len(plan)
  BY EngineConstants DEF GoodPlan
<1>2. \A j \in DOMAIN plan : plan[j] \in RangeRec
  BY <1>1
<1>3. /\ DOMAIN next = DOMAIN plan /\ next[i] = [plan[i] EXCEPT !.done = d]
      /\ \A j \in DOMAIN plan : j # i => next[j] = plan[j]
  BY <1>1
<1>4. /\ next[i].off = plan[i].off /\ next[i].len = plan[i].len /\ next[i].done = d
      /\ next[i] \in RangeRec
  <2>1. plan[i] \in RangeRec /\ d \in 0..Size
    BY <1>1, <1>2 DEF RangeRec
  <2>2. [plan[i] EXCEPT !.done = d] = [off |-> plan[i].off, len |-> plan[i].len, done |-> d]
    BY <2>1 DEF RangeRec
  <2> QED BY <1>3, <2>1, <2>2 DEF RangeRec
<1>5. next \in Seq(RangeRec) /\ Len(next) = Len(plan)
  BY <1>1, <1>2, <1>3, <1>4
<1>6. \A j \in DOMAIN plan : next[j].off = plan[j].off /\ next[j].len = plan[j].len
  BY <1>3, <1>4
<1>7. Usable(next, Size)
  BY <1>1, <1>3, <1>4, <1>5, <1>6 DEF Usable
<1>8. Apart(next) /\ Covers(next)
  BY <1>3, <1>6 DEF GoodPlan, Apart, Covers
<1> QED BY <1>3, <1>4, <1>5, <1>6, <1>7, <1>8 DEF GoodPlan

\* At the start the files are absent and the rows have no plan.
LEMMA TypesInit == Init => TypeInv
<1> SUFFICES ASSUME Init PROVE TypeInv
  OBVIOUS
<1> USE EngineConstants, SceneAssumption DEF Init
<1>1. Types
  BY DEF Types, SourceRec, RowRec, PartRec, ChunkRec, RunRec, NoPart, NoChunk, NoRun, Stages, Hole
<1>2. Plans
  BY DEF Plans
<1>3. PartSize
  BY DEF PartSize, NoChunk
<1>4. Stage
  BY DEF Stage, NoRun
<1> QED BY <1>1, <1>2, <1>3, <1>4 DEF TypeInv

\* What a step of an attempt that goes on leaves alone.
Kept == /\ run'.row = run.row /\ run'.asked = run.asked /\ run'.mtime = run.mtime
        /\ run'.blind = run.blind

\* An attempt that goes on changes its stage only.
LEMMA GoesOn ==
  ASSUME run \in RunRec, NEW a \in Stages, Goto(a)
  PROVE  /\ run' \in RunRec /\ run'.at = a /\ Kept /\ run'.chunked = run.chunked
         /\ run'.stop = run.stop /\ run'.dead = run.dead /\ run'.lanes = run.lanes
BY DEF Goto, RunRec, Kept

\* An attempt that is over leaves no row running and no lanes.
LEMMA IsOver ==
  ASSUME run' = NoRun
  PROVE  /\ run' \in RunRec /\ run'.row = 0 /\ run'.at = "none" /\ ~run'.chunked
         /\ ~run'.dead /\ run'.lanes = <<>>
BY DEF RunRec, NoRun, Stages

\* A row's plan is replaced, its other columns and the other rows are not.
LEMMA PlanIsSet ==
  ASSUME row \in [Rows -> RowRec], NEW r \in Rows, NEW plan \in Seq(RangeRec),
         SetPlan(r, plan)
  PROVE  /\ row' \in [Rows -> RowRec] /\ row'[r].plan = plan
         /\ row'[r].open = row[r].open /\ row'[r].mtime = row[r].mtime
         /\ \A q \in Rows : q # r => row'[q] = row[q]
BY DEF SetPlan, RowRec

\* The empty plan is a plan in which nothing is done.
LEMMA EmptyPlan == <<>> \in Seq(RangeRec) /\ ~HasChunkProgress(<<>>) /\ DOMAIN <<>> = {}
BY DEF HasChunkProgress

\* What a removed part is.
LEMMA NoFiles ==
  /\ NoPart \in PartRec /\ NoChunk \in ChunkRec /\ ~NoChunk.here
  /\ NoChunk.data = <<>> /\ NoChunk.disk = <<>> /\ NoPart.data = <<>>
BY DEF NoPart, NoChunk, PartRec, ChunkRec

\* A removed chunk part is gone; on a dead connection it stays as it was.
LEMMA ChunkPartGoes ==
  ASSUME wschunk \in ChunkRec, PartSize, RemoveChunkPart
  PROVE  wschunk' \in ChunkRec /\ PartSize' /\ wschunk' \in {wschunk, NoChunk}
BY NoFiles DEF RemoveChunkPart, PartSize

\* What a crash of the files' machine leaves.
LEMMA CrashLeaves ==
  ASSUME Types, PartSize, FilesCrash
  PROVE  /\ wspart' \in PartRec /\ wschunk' \in ChunkRec /\ final' = final /\ PartSize'
         /\ Len(wspart'.data) <= Len(wspart.data)
         /\ \A c \in DOMAIN wspart'.data : c \in DOMAIN wspart.data
                                          /\ wspart'.data[c] = wspart.data[c]
         /\ wschunk'.here = wschunk.here /\ wschunk'.disk = wschunk'.data
         /\ DOMAIN wschunk'.data = DOMAIN wschunk.data
         /\ \A c \in DOMAIN wschunk.data :
              wschunk'.data[c] \in {wschunk.data[c], wschunk.disk[c]}
<1>1. wschunk \in ChunkRec /\ wspart \in PartRec
  BY DEF Types
<1>2. PICK s \in Survivors : wschunk' = [wschunk EXCEPT !.data = s, !.disk = s]
  BY DEF FilesCrash
<1>3. PICK n \in 0..Len(wspart.data) : wspart' = [wspart EXCEPT !.data = SubSeq(@, 1, n)]
  BY DEF FilesCrash
<1>4. wschunk.data \in Seq(Nat) /\ wschunk.disk \in Seq(Nat) /\ wspart.data \in Seq(Nat)
  BY <1>1 DEF ChunkRec, PartRec
<1>5. /\ s \in Seq(Nat) /\ DOMAIN s = DOMAIN wschunk.data
      /\ \A c \in DOMAIN wschunk.data : s[c] \in {wschunk.data[c], wschunk.disk[c]}
  <2>1. PICK lost \in SUBSET (DOMAIN wschunk.data) :
          s = [c \in DOMAIN wschunk.data |-> IF c \in lost THEN wschunk.disk[c] ELSE wschunk.data[c]]
    BY <1>2 DEF Survivors
  <2>2. \A c \in DOMAIN wschunk.data : s[c] \in {wschunk.data[c], wschunk.disk[c]}
    BY <2>1
  <2>3. DOMAIN wschunk.disk = DOMAIN wschunk.data
    BY <1>4 DEF PartSize
  <2>4. \A c \in DOMAIN wschunk.data : wschunk.data[c] \in Nat /\ wschunk.disk[c] \in Nat
    <3>1. \A c \in 1..Len(wschunk.data) : wschunk.data[c] \in Nat
      BY <1>4
    <3>2. \A c \in 1..Len(wschunk.disk) : wschunk.disk[c] \in Nat
      BY <1>4
    <3> QED BY <1>4, <2>3, <3>1, <3>2
  <2>5. DOMAIN wschunk.data = 1..Len(wschunk.data) /\ Len(wschunk.data) \in Nat
    BY <1>4
  <2>6. s \in [1..Len(wschunk.data) -> Nat]
    BY <2>1, <2>4, <2>5
  <2>7. s \in Seq(Nat)
    BY <2>5, <2>6
  <2> QED BY <2>1, <2>2, <2>7
<1>6. /\ wschunk' \in ChunkRec /\ wschunk'.here = wschunk.here
      /\ wschunk'.data = s /\ wschunk'.disk = s
  BY <1>1, <1>2, <1>5 DEF ChunkRec
<1>7. Len(s) = Len(wschunk.data)
  BY <1>4, <1>5
<1>8. SubSeq(wspart.data, 1, n) \in Seq(Nat) /\ Len(SubSeq(wspart.data, 1, n)) = n
      /\ \A c \in 1..n : SubSeq(wspart.data, 1, n)[c] = wspart.data[c]
  <2>1. wspart.data \in Seq(Nat) /\ n \in 0..Len(wspart.data)
    BY <1>3, <1>4
  <2> QED BY <2>1
<1>9. wspart' \in PartRec /\ wspart'.data = SubSeq(wspart.data, 1, n)
  BY <1>1, <1>3, <1>8 DEF PartRec
<1>10. PartSize'
  BY <1>3, <1>5, <1>6, <1>7 DEF PartSize
<1>11. Len(wspart'.data) <= Len(wspart.data)
  BY <1>3, <1>8, <1>9
<1>12. \A c \in DOMAIN wspart'.data : c \in DOMAIN wspart.data /\ wspart'.data[c] = wspart.data[c]
  <2>1. DOMAIN SubSeq(wspart.data, 1, n) = 1..n
    BY <1>8
  <2>2. \A c \in 1..n : c \in DOMAIN wspart.data
    BY <1>3, <1>4
  <2> QED BY <1>8, <1>9, <2>1, <2>2
<1>13. /\ wschunk'.here = wschunk.here /\ wschunk'.disk = wschunk'.data
       /\ DOMAIN wschunk'.data = DOMAIN wschunk.data
       /\ \A c \in DOMAIN wschunk.data : wschunk'.data[c] \in {wschunk.data[c], wschunk.disk[c]}
  BY <1>3, <1>4, <1>5, <1>6
<1> QED BY <1>6, <1>9, <1>10, <1>11, <1>12, <1>13 DEF FilesCrash

\* No row has the number that stands for "none".
LEMMA NoRowIsZero == 0 \notin Rows
BY EngineConstants

\* What a scene is made of, and the faults that are left.
LEMMA SceneIsTyped ==
  ASSUME Types
  PROVE  /\ scene.rows \subseteq Rows /\ scene.streams \subseteq Nat /\ scene.grants \subseteq Nat
         /\ scene.faults \in Nat /\ scene.lens \subseteq Nat /\ Size \in Nat
         /\ scene.times \subseteq {"new", "same", "old"}
         /\ faults \in Nat /\ faults <= scene.faults
BY EngineConstants, SceneAssumption DEF Types

\* What holds after a step that leaves the rows, their sources and the files alone.
LEMMA OnlyTheRunMoves ==
  ASSUME TypeInv, UNCHANGED <<scene, source, row, fileVars, clock>>, run' \in RunRec,
         faults' \in 0..scene.faults
  PROVE  Types' /\ Plans' /\ PartSize'
BY DEF TypeInv, Types, Plans, PartSize, fileVars

\* Between attempts nothing is asked of the stage.
LEMMA StageAtRest ==
  ASSUME run' = NoRun
  PROVE  Stage'
BY NoRowIsZero, IsOver DEF Stage

\* Start puts a row at its plan, with no lanes yet.
LEMMA StartTypes ==
  ASSUME TypeInv, NEW r \in Rows, Start(r)
  PROVE  TypeInv' /\ run'.row = r /\ run'.at = "plan" /\ ~run'.chunked /\ ~run'.dead
         /\ run'.lanes = <<>> /\ run'.mtime = row[r].mtime
<1>1. PICK asked \in scene.streams, got \in scene.grants :
        /\ got < asked => faults < scene.faults
        /\ faults' = faults + (IF got < asked THEN 1 ELSE 0)
        /\ run' = [NoRun EXCEPT !.row = r, !.at = "plan", !.asked = asked, !.got = got,
                               !.mtime = row[r].mtime]
  BY DEF Start
<1>2. Types /\ asked \in Nat /\ got \in Nat /\ row[r].mtime \in Nat
  BY <1>1, SceneIsTyped DEF TypeInv, Types, RowRec
<1>3. run' = [NoRun EXCEPT !.row = r, !.at = "plan", !.asked = asked, !.got = got,
                               !.mtime = row[r].mtime]
  BY <1>1
<1>4. /\ run' \in RunRec /\ run'.row = r /\ run'.at = "plan" /\ ~run'.chunked /\ ~run'.dead
      /\ run'.lanes = <<>> /\ run'.mtime = row[r].mtime
  <2>1. run' = [row |-> r, at |-> "plan", asked |-> asked, got |-> got, mtime |-> row[r].mtime,
                chunked |-> FALSE, blind |-> FALSE, stop |-> FALSE, dead |-> FALSE,
                adopted |-> FALSE, lanes |-> <<>>]
    BY <1>3 DEF NoRun
  <2>2. <<>> \in Seq(LaneRec)
    OBVIOUS
  <2> QED BY <1>2, <2>1, <2>2 DEF RunRec, Stages
<1>5. faults' \in 0..scene.faults
  BY <1>1, <1>2, SceneIsTyped
<1>6. Types' /\ Plans' /\ PartSize'
  BY <1>4, <1>5, OnlyTheRunMoves DEF Start
<1>7. Stage'
  BY NoRowIsZero, <1>4, EngineConstants DEF Stage
<1> QED BY <1>4, <1>6, <1>7 DEF TypeInv

\* The row of an attempt is a row, and its plan is empty or good.
LEMMA RunningRow ==
  ASSUME TypeInv, run.row # 0
  PROVE  /\ run.row \in Rows /\ row[run.row] \in RowRec /\ Plan \in Seq(RangeRec)
         /\ source[run.row] \in SourceRec /\ source[run.row].len \in Nat
         /\ Plan # <<>> => GoodPlan(Plan)
         /\ run \in RunRec
BY DEF TypeInv, Types, RunRec, RowRec, SourceRec, Plans, Plan

\* Plans stay good when one row's plan is replaced by none or a good one.
LEMMA PlansStayGood ==
  ASSUME TypeInv, NEW r \in Rows, row' \in [Rows -> RowRec],
         row'[r].plan # <<>> => GoodPlan(row'[r].plan),
         \A q \in Rows : q # r => row'[q] = row[q]
  PROVE  Plans'
BY DEF TypeInv, Plans

\* ChunkPlan keeps the types: the plan of a changed source is emptied, others stay.
LEMMA ChunkPlanTypes ==
  ASSUME TypeInv, ChunkPlan
  PROVE  TypeInv'
<1>1. run.row \in Rows /\ run.at = "plan" /\ Types /\ ~run.chunked /\ run.lanes = <<>>
  BY RunningRow DEF ChunkPlan, At, TypeInv, Stage
<1>2. UNCHANGED <<scene, source, fileVars, clock>>
  BY DEF ChunkPlan
<1>3. CASE run' = NoRun /\ UNCHANGED <<row, faults>>
  BY <1>2, <1>3, IsOver, StageAtRest, OnlyTheRunMoves DEF TypeInv, Types
<1>4. CASE Linear /\ UNCHANGED <<row, faults>>
  <2>1. run' \in RunRec /\ run'.at = "clear" /\ Kept /\ run'.lanes = run.lanes /\ ~run'.chunked
    BY <1>1, <1>4, GoesOn DEF Linear, Stages, Types
  <2>2. Stage'
    BY NoRowIsZero, <1>1, <1>2, <2>1 DEF Stage, Kept
  <2> QED BY <1>1, <1>2, <1>4, <2>1, <2>2, OnlyTheRunMoves DEF TypeInv, Types
<1>5. CASE /\ faults < scene.faults /\ faults' = faults + 1 /\ row' = row
           /\ run' = [run EXCEPT !.at = "clear", !.blind = TRUE]
  <2>1. run' \in RunRec /\ run'.at = "clear" /\ run'.row = run.row /\ run'.lanes = <<>> /\ ~run'.chunked
    BY <1>1, <1>5 DEF Types, RunRec, Stages
  <2>2. Stage'
    BY NoRowIsZero, <1>1, <1>2, <2>1 DEF Stage
  <2>3. faults' \in 0..scene.faults
    BY <1>1, <1>5, SceneIsTyped
  <2> QED BY <1>1, <1>2, <1>5, <2>1, <2>2, <2>3, OnlyTheRunMoves DEF TypeInv
<1>6. CASE faults' = faults /\ Goto("changed") /\ SetPlan(run.row, <<>>)
  <2>1. run' \in RunRec /\ run'.at = "changed" /\ Kept /\ run'.lanes = run.lanes /\ ~run'.chunked
    BY <1>1, <1>6, GoesOn DEF Stages, Types
  <2>2. /\ row' \in [Rows -> RowRec] /\ row'[run.row].plan = <<>>
        /\ \A q \in Rows : q # run.row => row'[q] = row[q]
    BY <1>1, <1>6, PlanIsSet, EmptyPlan DEF Types
  <2>3. Plans'
    BY <1>1, <2>2, PlansStayGood
  <2>4. Types' /\ PartSize'
    BY <1>1, <1>2, <1>6, <2>1, <2>2 DEF Types, TypeInv, PartSize, fileVars
  <2>5. Stage'
    BY NoRowIsZero, <1>1, <2>1 DEF Stage, Kept
  <2> QED BY <2>3, <2>4, <2>5 DEF TypeInv
<1>7. CASE faults' = faults /\ Goto("ranges") /\ row' = row /\ source[run.row].len = Size
  <2>1. run' \in RunRec /\ run'.at = "ranges" /\ Kept /\ run'.lanes = run.lanes /\ ~run'.chunked
    BY <1>1, <1>7, GoesOn DEF Stages, Types
  <2>2. Stage'
    BY NoRowIsZero, <1>1, <1>2, <1>7, <2>1 DEF Stage, Kept
  <2> QED BY <1>1, <1>2, <1>7, <2>1, <2>2, OnlyTheRunMoves DEF TypeInv, Types
<1> QED BY <1>3, <1>4, <1>5, <1>6, <1>7 DEF ChunkPlan, TooNarrow, Ends

\* SourceChanged keeps the types: the part of the old source goes.
LEMMA SourceChangedTypes ==
  ASSUME TypeInv, SourceChanged
  PROVE  TypeInv'
<1>1. run.row \in Rows /\ run.at = "changed" /\ Types /\ ~run.chunked /\ run.lanes = <<>>
  BY RunningRow DEF SourceChanged, At, TypeInv, Stage
<1>2. UNCHANGED <<scene, source, row, wspart, final, faults, clock>>
  BY DEF SourceChanged
<1>3. wschunk' \in ChunkRec /\ PartSize'
  BY ChunkPartGoes DEF SourceChanged, TypeInv, Types
<1>4. PICK a \in {"clear", "ranges"} : Goto(a) /\ (a = "ranges" => source[run.row].len = Size)
  BY DEF SourceChanged, Linear
<1>5. run' \in RunRec /\ run'.at = a /\ Kept /\ run'.lanes = run.lanes /\ ~run'.chunked
  BY <1>1, <1>4, GoesOn DEF Stages, Types
<1>6. Types' /\ Plans'
  BY <1>1, <1>2, <1>3, <1>5 DEF Types, TypeInv, Plans
<1>7. Stage'
  BY NoRowIsZero, <1>1, <1>2, <1>4, <1>5 DEF Stage, Kept
<1> QED BY <1>3, <1>6, <1>7 DEF TypeInv

\* What Ranges chooses is the saved plan or a new one, good or none.
LEMMA RangesPlan ==
  ASSUME TypeInv, Ranges
  PROVE  /\ run.row \in Rows /\ run.at = "ranges" /\ source[run.row].len = Size
         /\ run' \in RunRec /\ run'.at = "clear" /\ Kept /\ run'.lanes = <<>>
         /\ run'.dead = run.dead
         /\ row' \in [Rows -> RowRec] /\ \A q \in Rows : q # run.row => row'[q] = row[q]
         /\ IF run'.chunked THEN GoodPlan(row'[run.row].plan) ELSE row'[run.row].plan = <<>>
         /\ Plan # <<>> => row' = row /\ run'.chunked
         /\ row' # row => ~HasChunkProgress(row'[run.row].plan)
         /\ faults' \in 0..scene.faults /\ row'[run.row].open = row[run.row].open
<1> DEFINE r == run.row
           new == PlanChunks(Size, run.got)
           chosen == IF Len(Plan) >= 2 THEN Plan ELSE new
<1>1. /\ r \in Rows /\ run.at = "ranges" /\ ~run.chunked /\ run.lanes = <<>> /\ run \in RunRec
      /\ source[r].len = Size /\ row \in [Rows -> RowRec] /\ source[r] \in SourceRec
      /\ Plan \in Seq(RangeRec) /\ row[r] \in RowRec
  BY RunningRow DEF Ranges, At, TypeInv, Types, Stage
<1>2. /\ IF Len(Plan) >= 2 \/ Len(chosen) < 2 THEN UNCHANGED <<row, faults>>
         ELSE SavePlan(r, chosen)
      /\ run' = [run EXCEPT !.at = "clear", !.chunked = Usable(chosen, Size)]
  BY DEF Ranges, Plan
<1>3. Usable(chosen, Size) \in BOOLEAN
  BY DEF Usable
<1>4. /\ run' \in RunRec /\ run'.at = "clear" /\ Kept /\ run'.lanes = <<>> /\ run'.dead = run.dead
      /\ run'.chunked = Usable(chosen, Size)
  BY <1>1, <1>2, <1>3 DEF RunRec, Stages, Kept
<1>5. Plan # <<>> => GoodPlan(Plan) /\ Len(Plan) >= 2 /\ Usable(Plan, Size)
  BY <1>1, RunningRow, EngineConstants DEF GoodPlan, Usable
<1>6. Plan = <<>> => Len(Plan) = 0
  OBVIOUS
<1>7. new = <<>> \/ (GoodPlan(new) /\ Len(new) >= 2 /\ ~HasChunkProgress(new))
  BY <1>1, PlanTiles DEF RunRec
<1>8. ~Usable(<<>>, Size)
  BY DEF Usable
<1>9. faults' \in 0..scene.faults
  <2>1. faults \in 0..scene.faults /\ scene.faults \in Nat
    BY SceneIsTyped DEF TypeInv, Types
  <2> QED BY <1>2, <2>1 DEF SavePlan, Fault
<1>10. CASE Plan # <<>>
  <2>1. row' = row /\ run'.chunked /\ GoodPlan(row'[r].plan)
    BY <1>2, <1>4, <1>5, <1>10 DEF Plan
  <2> QED BY <1>1, <1>4, <1>9, <1>10, <2>1
<1>11. CASE Plan = <<>> /\ new = <<>>
  <2>1. row' = row /\ ~run'.chunked
    BY <1>2, <1>4, <1>6, <1>8, <1>11
  <2> QED BY <1>1, <1>4, <1>9, <1>11, <2>1 DEF Plan
<1>12. CASE Plan = <<>> /\ new # <<>>
  <2>1. GoodPlan(new) /\ Len(new) >= 2 /\ ~HasChunkProgress(new)
    BY <1>7, <1>12
  <2>2. row' \in {[row EXCEPT ![r].plan = new, ![r].mtime = source[r].mtime],
                  [row EXCEPT ![r].plan = new]}
    BY <1>2, <1>6, <1>12, <2>1 DEF SavePlan, SetPlan
  <2>3. new \in Seq(RangeRec) /\ Usable(new, Size) /\ source[r].mtime \in Nat
    BY <1>1, <2>1 DEF GoodPlan, SourceRec
  <2> HIDE DEF new
  <2>4. /\ row' \in [Rows -> RowRec] /\ row'[r].plan = new /\ row'[r].open = row[r].open
        /\ \A q \in Rows : q # r => row'[q] = row[q]
    <3>1. CASE row' = [row EXCEPT ![r].plan = new, ![r].mtime = source[r].mtime]
      BY <1>1, <2>3, <3>1 DEF RowRec
    <3>2. CASE row' = [row EXCEPT ![r].plan = new]
      BY <1>1, <2>3, <3>2 DEF RowRec
    <3> QED BY <2>2, <3>1, <3>2
  <2>5. run'.chunked
    BY <1>4, <1>6, <1>12, <2>3
  <2> QED BY <1>1, <1>4, <1>9, <1>12, <2>1, <2>4, <2>5
<1> QED BY <1>10, <1>11, <1>12

\* Ranges keeps the types: it keeps the plan, makes one by PlanTiles, or has none.
LEMMA RangesTypes ==
  ASSUME TypeInv, Ranges
  PROVE  TypeInv'
<1>1. UNCHANGED <<scene, source, fileVars, clock>>
  BY DEF Ranges
<1>2. Plans'
  BY RangesPlan, PlansStayGood
<1>3. Types' /\ PartSize'
  BY <1>1, RangesPlan DEF Types, TypeInv, PartSize, fileVars
<1>4. ~GoodPlan(<<>>)
  BY EngineConstants DEF GoodPlan, Usable
<1>5. Stage'
  BY NoRowIsZero, <1>1, <1>4, RangesPlan DEF Stage, Kept, Plan
<1> QED BY <1>2, <1>3, <1>5 DEF TypeInv

\* ClearLeftovers keeps the types: the part of the engine that does not run goes.
LEMMA ClearLeftoversTypes ==
  ASSUME TypeInv, ClearLeftovers
  PROVE  TypeInv'
<1>1. run.row \in Rows /\ run.at = "clear" /\ Types /\ run.lanes = <<>>
  BY RunningRow DEF ClearLeftovers, At, TypeInv, Stage
<1>2. UNCHANGED <<scene, source, row, final, faults, clock>>
  BY DEF ClearLeftovers
<1>3. CASE run.chunked /\ RemoveLinearPart /\ wschunk' = wschunk /\ Goto("open")
  <2>1. run' \in RunRec /\ run'.at = "open" /\ Kept /\ run'.lanes = run.lanes /\ run'.chunked
    BY <1>1, <1>3, GoesOn DEF Stages, Types
  <2>2. wspart' \in PartRec
    BY <1>1, <1>3, NoFiles DEF RemoveLinearPart, Types
  <2>3. Types' /\ Plans' /\ PartSize'
    BY <1>1, <1>2, <1>3, <2>1, <2>2 DEF Types, TypeInv, Plans, PartSize
  <2>4. Stage'
    BY NoRowIsZero, <1>1, <1>2, <1>3, <2>1 DEF Stage, Kept, Plan, TypeInv
  <2> QED BY <2>3, <2>4 DEF TypeInv
<1>4. CASE ~run.chunked /\ RemoveChunkPart /\ wspart' = wspart /\ Goto("unplan")
  <2>1. run' \in RunRec /\ run'.at = "unplan" /\ Kept /\ run'.lanes = run.lanes /\ ~run'.chunked
    BY <1>1, <1>4, GoesOn DEF Stages, Types
  <2>2. wschunk' \in ChunkRec /\ PartSize'
    BY <1>1, <1>4, ChunkPartGoes DEF TypeInv, Types
  <2>3. Types' /\ Plans'
    BY <1>1, <1>2, <1>4, <2>1, <2>2 DEF Types, TypeInv, Plans
  <2>4. Stage'
    BY NoRowIsZero, <1>1, <1>2, <2>1 DEF Stage, Kept
  <2> QED BY <2>2, <2>3, <2>4 DEF TypeInv
<1> QED BY <1>3, <1>4 DEF ClearLeftovers

\* A step that drops the running row's plan and goes on without lanes.
LEMMA DroppingThePlan ==
  ASSUME TypeInv, run.row \in Rows, SetPlan(run.row, <<>>),
         UNCHANGED <<scene, source, faults, clock>>
  PROVE  /\ row' \in [Rows -> RowRec] /\ row'[run.row].plan = <<>> /\ Plans'
         /\ \A q \in Rows : q # run.row => row'[q] = row[q]
<1>1. /\ row' \in [Rows -> RowRec] /\ row'[run.row].plan = <<>>
      /\ \A q \in Rows : q # run.row => row'[q] = row[q]
  BY PlanIsSet, EmptyPlan DEF Types, TypeInv
<1> QED BY <1>1, PlansStayGood

\* DropPlan keeps the types: the plan is emptied before the linear engine opens.
LEMMA DropPlanTypes ==
  ASSUME TypeInv, DropPlan
  PROVE  TypeInv'
<1>1. run.row \in Rows /\ run.at = "unplan" /\ Types /\ run.lanes = <<>> /\ ~run.chunked
  BY RunningRow DEF DropPlan, At, TypeInv, Stage
<1>2. UNCHANGED <<scene, source, fileVars, faults, clock>> /\ SetPlan(run.row, <<>>)
  BY DEF DropPlan
<1>3. run' \in RunRec /\ run'.at = "open" /\ Kept /\ run'.lanes = run.lanes /\ ~run'.chunked
  BY <1>1, GoesOn DEF DropPlan, Stages, Types
<1>4. row' \in [Rows -> RowRec] /\ Plans'
  BY <1>1, <1>2, DroppingThePlan
<1>5. Types' /\ PartSize'
  BY <1>1, <1>2, <1>3, <1>4 DEF Types, TypeInv, PartSize, fileVars
<1>6. Stage'
  BY NoRowIsZero, <1>1, <1>3 DEF Stage, Kept
<1> QED BY <1>4, <1>5, <1>6 DEF TypeInv

\* ChunkStateLost keeps the types: the plan of a lost part is emptied.
LEMMA ChunkStateLostTypes ==
  ASSUME TypeInv, ChunkStateLost
  PROVE  TypeInv'
<1>1. run.row \in Rows /\ run.at = "lost" /\ Types /\ run.lanes = <<>>
      /\ (run.chunked => source[run.row].len = Size)
  BY RunningRow DEF ChunkStateLost, At, TypeInv, Stage
<1>2. UNCHANGED <<scene, source, fileVars, faults, clock>> /\ SetPlan(run.row, <<>>)
  BY DEF ChunkStateLost
<1>3. run' \in RunRec /\ run'.at = "lostpart" /\ Kept /\ run'.lanes = run.lanes
      /\ run'.chunked = run.chunked
  BY <1>1, GoesOn DEF ChunkStateLost, Stages, Types
<1>4. row' \in [Rows -> RowRec] /\ Plans'
  BY <1>1, <1>2, DroppingThePlan
<1>5. Types' /\ PartSize'
  BY <1>1, <1>2, <1>3, <1>4 DEF Types, TypeInv, PartSize, fileVars
<1>6. Stage'
  BY NoRowIsZero, <1>1, <1>2, <1>3 DEF Stage, Kept
<1> QED BY <1>4, <1>5, <1>6 DEF TypeInv

\* RemoveLostPart keeps the types.
LEMMA RemoveLostPartTypes ==
  ASSUME TypeInv, RemoveLostPart
  PROVE  TypeInv'
<1>1. UNCHANGED <<scene, source, row, wspart, final, faults, clock>> /\ run' = NoRun
  BY DEF RemoveLostPart, Ends
<1>2. wschunk' \in ChunkRec /\ PartSize'
  BY ChunkPartGoes DEF RemoveLostPart, TypeInv, Types
<1> QED BY <1>1, <1>2, IsOver, StageAtRest DEF TypeInv, Types, Plans

\* StartLanes: a lane for each range, at its checkpoint.
LEMMA LanesStart ==
  ASSUME run \in RunRec, NEW plan, GoodPlan(plan), StartLanes(plan)
  PROVE  /\ run' \in RunRec /\ Kept /\ run'.at = "copy" /\ run'.chunked = run.chunked
         /\ run'.dead = run.dead /\ DOMAIN run'.lanes = DOMAIN plan
         /\ \A i \in DOMAIN plan : run'.lanes[i].done = plan[i].done /\ run'.lanes[i].at # "mark"
<1> DEFINE made == [i \in DOMAIN plan |->
                      [at |-> IF plan[i].done = plan[i].len THEN "end" ELSE "copy",
                       done |-> plan[i].done, last |-> FALSE, failed |-> FALSE]]
<1>1. DOMAIN plan = 1..Len(plan) /\ Len(plan) \in Nat
  BY DEF GoodPlan
<1>2. \A i \in DOMAIN plan : plan[i].done \in Nat
  BY RangeEnds DEF RangeRec
<1>3. made \in Seq(LaneRec)
  BY <1>1, <1>2 DEF LaneRec, LaneAt
<1>4. /\ DOMAIN made = DOMAIN plan
      /\ \A i \in DOMAIN plan : made[i].done = plan[i].done /\ made[i].at # "mark"
  OBVIOUS
<1>5. run' = [run EXCEPT !.at = "copy", !.lanes = made]
  BY DEF StartLanes
<1> HIDE DEF made
<1> QED BY <1>3, <1>4, <1>5 DEF RunRec, Stages, Kept

\* Resizing keeps the cells that are there and makes holes of the others.
LEMMA ResizedParts ==
  ASSUME NEW s \in Seq(Nat)
  PROVE  /\ Resized(s, Size) \in Seq(Nat) /\ Len(Resized(s, Size)) = Size
         /\ DOMAIN Resized(s, Size) = 1..Size
         /\ \A c \in 1..Size : Resized(s, Size)[c] = IF c \in DOMAIN s THEN s[c] ELSE Hole
<1>1. Size \in Nat /\ DOMAIN s = 1..Len(s) /\ \A c \in 1..Len(s) : s[c] \in Nat
  BY EngineConstants
<1> QED BY <1>1 DEF Resized, Hole

\* OpenChunked resumes, finds the part lost, prepares it or gives it up.
LEMMA OpenChunkedCases ==
  ASSUME TypeInv, OpenChunked
  PROVE  /\ run.row \in Rows /\ run.at = "open" /\ run.chunked /\ ~run.dead /\ run.lanes = <<>>
         /\ source[run.row].len = Size /\ GoodPlan(Plan)
         /\ UNCHANGED <<scene, source, wspart, final, faults, clock>>
         /\ \/ /\ HasChunkProgress(Plan) /\ UNCHANGED <<row, wschunk>>
               /\ \/ Verified(run.row, wschunk) /\ StartLanes(Plan)
                  \/ ~Verified(run.row, wschunk) /\ Goto("lost")
            \/ /\ ~HasChunkProgress(Plan) /\ row' = row /\ StartLanes(Plan)
               /\ \/ Download /\ wschunk' = [here |-> TRUE, data |-> Resized(wschunk.data, Size),
                                             disk |-> Resized(wschunk.disk, Size)]
                  \/ ~Download /\ wschunk' = [here |-> TRUE, data |-> Resized(<<>>, Size),
                                              disk |-> Resized(<<>>, Size)]
            \/ /\ ~HasChunkProgress(Plan) /\ ~Download /\ wschunk' = NoChunk
               /\ SetPlan(run.row, <<>>) /\ run' = [run EXCEPT !.chunked = FALSE]
<1>1. /\ run.row \in Rows /\ run.at = "open" /\ run.chunked /\ ~run.dead /\ run.lanes = <<>>
      /\ source[run.row].len = Size /\ Plan # <<>>
  BY RunningRow DEF OpenChunked, At, TypeInv, Stage
<1>2. GoodPlan(Plan)
  BY <1>1, NoRowIsZero, RunningRow
<1>3. UNCHANGED <<scene, source, wspart, final, faults, clock>>
  BY DEF OpenChunked, Resume, Prepare, fileVars
<1>4. \/ /\ HasChunkProgress(Plan) /\ UNCHANGED <<row, wschunk>>
         /\ \/ Verified(run.row, wschunk) /\ StartLanes(Plan)
            \/ ~Verified(run.row, wschunk) /\ Goto("lost")
      \/ Prepare
  BY DEF OpenChunked, Resume, Plan, fileVars
<1>5. Prepare =>
        \/ /\ ~HasChunkProgress(Plan) /\ row' = row /\ StartLanes(Plan)
           /\ \/ Download /\ wschunk' = [here |-> TRUE, data |-> Resized(wschunk.data, Size),
                                         disk |-> Resized(wschunk.disk, Size)]
              \/ ~Download /\ wschunk' = [here |-> TRUE, data |-> Resized(<<>>, Size),
                                          disk |-> Resized(<<>>, Size)]
        \/ /\ ~HasChunkProgress(Plan) /\ ~Download /\ wschunk' = NoChunk
           /\ SetPlan(run.row, <<>>) /\ run' = [run EXCEPT !.chunked = FALSE]
  BY DEF Prepare, Plan
<1> QED BY <1>1, <1>2, <1>3, <1>4, <1>5

\* OpenChunked keeps the types: the part it opens has the planned size.
LEMMA OpenChunkedTypes ==
  ASSUME TypeInv, OpenChunked
  PROVE  TypeInv'
<1>1. Types /\ run.row # 0 /\ run.row \in Rows
  BY OpenChunkedCases, NoRowIsZero DEF TypeInv
<1>2. CASE UNCHANGED <<row, wschunk>> /\ Goto("lost")
  <2>1. run' \in RunRec /\ run'.at = "lost" /\ Kept /\ run'.lanes = run.lanes /\ run'.chunked
    BY <1>1, <1>2, GoesOn, OpenChunkedCases DEF Stages, Types
  <2>2. Stage'
    BY NoRowIsZero, <1>1, <2>1, OpenChunkedCases DEF Stage, Kept
  <2> QED BY <1>1, <1>2, <2>1, <2>2, OpenChunkedCases DEF TypeInv, Types, Plans, PartSize
<1>3. ASSUME row' = row, StartLanes(Plan), wschunk' \in ChunkRec, PartSize' PROVE TypeInv'
  <2>1. /\ run' \in RunRec /\ Kept /\ run'.at = "copy" /\ run'.chunked
        /\ DOMAIN run'.lanes = DOMAIN Plan
        /\ \A i \in DOMAIN Plan : run'.lanes[i].done = Plan[i].done
    BY <1>1, <1>3, LanesStart, OpenChunkedCases DEF Types
  <2>2. Plan' = Plan /\ run'.row = run.row
    BY <1>3, <2>1 DEF Plan, Kept
  <2>3. \A i \in DOMAIN Plan : Plan[i].done <= Plan[i].len
    BY RangeEnds, OpenChunkedCases
  <2>4. Plan # <<>>
    BY OpenChunkedCases, EngineConstants DEF GoodPlan, Usable
  <2>5. Stage'
    BY NoRowIsZero, <1>1, <2>1, <2>2, <2>3, <2>4, OpenChunkedCases DEF Stage
  <2> QED BY <1>1, <1>3, <2>1, <2>5, OpenChunkedCases DEF TypeInv, Types, Plans
<1>4. CASE UNCHANGED <<row, wschunk>> /\ StartLanes(Plan)
  BY <1>1, <1>3, <1>4 DEF TypeInv, Types, PartSize
<1>5. ASSUME NEW s \in Seq(Nat), NEW d \in Seq(Nat), row' = row, StartLanes(Plan),
             wschunk' = [here |-> TRUE, data |-> Resized(s, Size), disk |-> Resized(d, Size)]
      PROVE  TypeInv'
  BY <1>3, <1>5, ResizedParts DEF ChunkRec, PartSize
<1>6. wschunk.data \in Seq(Nat) /\ wschunk.disk \in Seq(Nat) /\ <<>> \in Seq(Nat)
  BY <1>1 DEF Types, ChunkRec
<1>7. CASE /\ wschunk' = NoChunk /\ SetPlan(run.row, <<>>)
           /\ run' = [run EXCEPT !.chunked = FALSE]
  <2>1. /\ run' \in RunRec /\ run'.row = run.row /\ run'.at = "open" /\ ~run'.chunked
        /\ run'.lanes = <<>>
    BY <1>1, <1>7, OpenChunkedCases DEF Types, RunRec
  <2>2. row' \in [Rows -> RowRec] /\ Plans'
    BY <1>1, <1>7, DroppingThePlan, OpenChunkedCases
  <2>3. Types' /\ PartSize'
    BY <1>1, <1>7, <2>1, <2>2, NoFiles, OpenChunkedCases DEF Types, PartSize
  <2>4. Stage'
    BY NoRowIsZero, <1>1, <2>1 DEF Stage
  <2> QED BY <2>2, <2>3, <2>4 DEF TypeInv
<1> QED BY <1>2, <1>4, <1>5, <1>6, <1>7, OpenChunkedCases

-----------------------------------------------------------------------------
(* Lanes.                                                                  *)

\* One lane goes on to be l, the others and the attempt stay as they are.
LaneGoes(i, l) ==
  /\ run' \in RunRec /\ Kept /\ run'.at = run.at /\ run'.chunked = run.chunked
  /\ run'.dead = run.dead /\ DOMAIN run'.lanes = DOMAIN run.lanes
  /\ run'.lanes[i] = l /\ \A j \in DOMAIN run.lanes : j # i => run'.lanes[j] = run.lanes[j]

\* A lane is a lane.
LEMMA LaneIsRec ==
  ASSUME run \in RunRec, NEW i \in DOMAIN run.lanes
  PROVE  run.lanes[i] \in LaneRec /\ run.lanes \in Seq(LaneRec)
<1>1. run.lanes \in Seq(LaneRec)
  BY DEF RunRec
<1>2. DOMAIN run.lanes = 1..Len(run.lanes) /\ \A j \in 1..Len(run.lanes) : run.lanes[j] \in LaneRec
  BY <1>1
<1> QED BY <1>1, <1>2

\* Where one lane is replaced, the run and its other lanes stay as they were.
LEMMA LaneMoves ==
  ASSUME run \in RunRec, NEW i \in DOMAIN run.lanes, NEW l \in LaneRec, NEW stop \in BOOLEAN,
         run' = [run EXCEPT !.lanes = [run.lanes EXCEPT ![i] = l], !.stop = stop]
  PROVE  LaneGoes(i, l) /\ run'.stop = stop
<1> DEFINE lanes == [run.lanes EXCEPT ![i] = l]
<1>1. run.lanes \in Seq(LaneRec) /\ DOMAIN run.lanes = 1..Len(run.lanes)
  BY DEF RunRec
<1>2. /\ lanes \in Seq(LaneRec) /\ DOMAIN lanes = DOMAIN run.lanes
      /\ lanes[i] = l /\ \A j \in DOMAIN run.lanes : j # i => lanes[j] = run.lanes[j]
  BY <1>1
<1>3. run' = [run EXCEPT !.lanes = lanes, !.stop = stop]
  OBVIOUS
<1> HIDE DEF lanes
<1> QED BY <1>2, <1>3 DEF RunRec, LaneGoes, Kept

\* The lanes at work: their plan, and the bounds of the one that moves.
LEMMA Working ==
  ASSUME TypeInv, At("copy"), run.chunked, NEW i \in DOMAIN run.lanes
  PROVE  /\ run.row \in Rows /\ run \in RunRec /\ source[run.row].len = Size
         /\ GoodPlan(Plan) /\ DOMAIN run.lanes = DOMAIN Plan
         /\ \A j \in DOMAIN run.lanes : run.lanes[j] \in LaneRec /\ run.lanes[j].done <= Plan[j].len
         /\ run.lanes[i].at \in LaneAt /\ run.lanes[i].done \in Nat
         /\ run.lanes[i].last \in BOOLEAN /\ run.lanes[i].failed \in BOOLEAN
<1>1. run.row \in Rows /\ run \in RunRec /\ source[run.row].len = Size /\ Plan # <<>>
      /\ DOMAIN run.lanes = DOMAIN Plan /\ \A j \in DOMAIN run.lanes : run.lanes[j].done <= Plan[j].len
  BY RunningRow DEF At, TypeInv, Stage
<1>2. GoodPlan(Plan)
  BY <1>1, NoRowIsZero, RunningRow
<1>3. \A j \in DOMAIN run.lanes : run.lanes[j] \in LaneRec
  BY <1>1, LaneIsRec
<1> QED BY <1>1, <1>2, <1>3 DEF LaneRec

\* Only the chunked engine has lanes.
LEMMA LanesAreChunked ==
  ASSUME TypeInv, NEW i \in DOMAIN run.lanes
  PROVE  run.chunked
<1>1. run.lanes # <<>>
  BY EmptyPlan
<1> QED BY <1>1 DEF TypeInv, Stage

\* Each lane's step on the lane and the attempt.
LEMMA LaneSteps ==
  ASSUME TypeInv, NEW i \in DOMAIN run.lanes
  PROVE  LET l == run.lanes[i] IN
         /\ CopyCell(i) => \E at \in {"copy", "sync"} : LaneGoes(i, [l EXCEPT !.at = at, !.done = @ + 1])
         /\ LastCommit(i) => LaneGoes(i, [l EXCEPT !.at = "sync", !.last = TRUE])
         /\ CopyFails(i) => LaneGoes(i, [l EXCEPT !.at = "sync", !.last = TRUE, !.failed = TRUE])
         /\ Sync(i) => LaneGoes(i, [l EXCEPT !.at = "mark"])
         /\ SyncFails(i) => LaneGoes(i, [l EXCEPT !.at = "end"])
         /\ Checkpoint(i) => \E at \in {"copy", "end"} : LaneGoes(i, [l EXCEPT !.at = at])
<1> DEFINE l == run.lanes[i]
           Sets(m, stop) == run' = [run EXCEPT !.lanes = [run.lanes EXCEPT ![i] = m], !.stop = stop]
<1>1. run \in RunRec /\ l \in LaneRec /\ run.stop \in BOOLEAN /\ l.failed \in BOOLEAN
  BY LaneIsRec DEF TypeInv, Types, RunRec, LaneRec
<1>2. \A m \in LaneRec, stop \in BOOLEAN : Sets(m, stop) => LaneGoes(i, m)
  BY <1>1, LaneMoves
<1>3. \A at \in LaneAt : \A last, failed \in BOOLEAN :
        /\ [l EXCEPT !.at = at] \in LaneRec
        /\ [l EXCEPT !.at = at, !.last = last] \in LaneRec
        /\ [l EXCEPT !.at = at, !.last = last, !.failed = failed] \in LaneRec
        /\ [l EXCEPT !.at = at, !.done = @ + 1] \in LaneRec
  <2> SUFFICES ASSUME NEW at \in LaneAt, NEW last \in BOOLEAN, NEW failed \in BOOLEAN
               PROVE  /\ [l EXCEPT !.at = at] \in LaneRec
                      /\ [l EXCEPT !.at = at, !.last = last] \in LaneRec
                      /\ [l EXCEPT !.at = at, !.last = last, !.failed = failed] \in LaneRec
                      /\ [l EXCEPT !.at = at, !.done = @ + 1] \in LaneRec
    OBVIOUS
  <2> HIDE DEF l
  <2>1. l.done + 1 \in Nat
    BY <1>1 DEF LaneRec
  <2>2. [l EXCEPT !.at = at, !.done = l.done + 1] \in LaneRec
    BY <1>1, <2>1 DEF LaneRec
  <2>3. /\ [l EXCEPT !.at = at] \in LaneRec
        /\ [l EXCEPT !.at = at, !.last = last] \in LaneRec
        /\ [l EXCEPT !.at = at, !.last = last, !.failed = failed] \in LaneRec
    BY <1>1 DEF LaneRec
  <2> QED BY <2>2, <2>3
<1>4. {"copy", "sync", "mark", "end"} \subseteq LaneAt
  BY DEF LaneAt
<1>5. ASSUME CopyCell(i)
      PROVE  \E at \in {"copy", "sync"} : LaneGoes(i, [l EXCEPT !.at = at, !.done = @ + 1])
  <2>1. PICK due \in BOOLEAN :
          run' = [run EXCEPT !.lanes[i].done = @ + 1, !.lanes[i].at = IF due THEN "sync" ELSE "copy"]
    BY <1>5 DEF CopyCell
  <2>2. PICK at \in {"copy", "sync"} : run' = [run EXCEPT !.lanes[i].done = @ + 1, !.lanes[i].at = at]
    BY <2>1
  <2>3. Sets([l EXCEPT !.at = at, !.done = @ + 1], run.stop)
    BY <1>1, <2>2 DEF RunRec, LaneRec
  <2> QED BY <1>1, <1>2, <1>3, <1>4, <2>3
<1>6. ASSUME LastCommit(i) PROVE LaneGoes(i, [l EXCEPT !.at = "sync", !.last = TRUE])
  <2>1. Sets([l EXCEPT !.at = "sync", !.last = TRUE], run.stop)
    BY <1>1, <1>6 DEF LastCommit, RunRec, LaneRec
  <2> QED BY <1>1, <1>2, <1>3, <1>4, <2>1
<1>7. ASSUME CopyFails(i)
      PROVE  LaneGoes(i, [l EXCEPT !.at = "sync", !.last = TRUE, !.failed = TRUE])
  <2>1. Sets([l EXCEPT !.at = "sync", !.last = TRUE, !.failed = TRUE], run.stop)
    BY <1>1, <1>7 DEF CopyFails, RunRec, LaneRec
  <2> QED BY <1>1, <1>2, <1>3, <1>4, <2>1
<1>8. ASSUME Sync(i) PROVE LaneGoes(i, [l EXCEPT !.at = "mark"])
  <2>1. Sets([l EXCEPT !.at = "mark"], run.stop)
    BY <1>1, <1>8 DEF Sync, SyncBefore, Synced, Unsynced, Lane, RunRec, LaneRec
  <2> QED BY <1>1, <1>2, <1>3, <1>4, <2>1
<1>9. ASSUME SyncFails(i) PROVE LaneGoes(i, [l EXCEPT !.at = "end"])
  <2>1. Sets([l EXCEPT !.at = "end"], TRUE)
    BY <1>1, <1>9 DEF SyncFails, RunRec, LaneRec
  <2> QED BY <1>1, <1>2, <1>3, <1>4, <2>1
<1>10. ASSUME Checkpoint(i) PROVE \E at \in {"copy", "end"} : LaneGoes(i, [l EXCEPT !.at = at])
  <2>1. PICK at \in {"copy", "end"} :
          run' = [run EXCEPT !.lanes[i].at = at, !.stop = @ \/ l.failed]
    BY <1>10 DEF Checkpoint
  <2>2. Sets([l EXCEPT !.at = at], run.stop \/ l.failed)
    BY <1>1, <2>1 DEF RunRec, LaneRec
  <2> QED BY <1>1, <1>2, <1>3, <1>4, <2>2
<1> QED BY <1>5, <1>6, <1>7, <1>8, <1>9, <1>10

\* Stage holds on as long as a lane stays within its range.
LEMMA LaneStage ==
  ASSUME TypeInv, At("copy"), NEW i \in DOMAIN run.lanes, NEW l, LaneGoes(i, l),
         l.done <= Plan[i].len, source' = source,
         DOMAIN Plan' = DOMAIN Plan, \A j \in DOMAIN Plan : Plan'[j].len = Plan[j].len
  PROVE  Stage'
<1>1. run.chunked
  BY LanesAreChunked
<1>2. /\ run'.row = run.row /\ run'.at = "copy" /\ run'.chunked /\ run.row \in Rows
      /\ source[run.row].len = Size /\ DOMAIN run'.lanes = DOMAIN Plan'
      /\ \A j \in DOMAIN run'.lanes : run'.lanes[j].done <= Plan'[j].len
  BY <1>1, Working DEF LaneGoes, Kept, At
<1>3. Plan' # <<>>
  BY <1>1, Working, EmptyPlan
<1> QED BY <1>2, <1>3, NoRowIsZero DEF Stage

\* The cell that a lane copies next.
LEMMA NextCell ==
  ASSUME TypeInv, NEW i \in DOMAIN run.lanes, CopyCell(i)
  PROVE  LET c == Plan[i].off + run.lanes[i].done + 1 IN
         /\ c \in 1..Size /\ run.lanes[i].done + 1 <= Plan[i].len
         /\ wschunk' = Written(c, source[run.row].tag)
         /\ source[run.row].tag \in Nat
<1> DEFINE c == Plan[i].off + run.lanes[i].done + 1
<1>1. At("copy") /\ run.chunked /\ run.lanes[i].done < Plan[i].len
      /\ wschunk' = Written(c, Content(run.row)[c])
  BY DEF CopyCell, Plan
<1>2. /\ run.row \in Rows /\ source[run.row].len = Size /\ run.lanes[i].done \in Nat
      /\ Plan[i] \in RangeRec /\ Plan[i].off + Plan[i].len <= Size /\ Size \in Nat
  BY <1>1, Working, RangeEnds, EngineConstants
<1>3. c \in 1..Size /\ run.lanes[i].done + 1 <= Plan[i].len
  BY <1>1, <1>2 DEF RangeRec
<1>4. source[run.row] \in SourceRec /\ source[run.row].tag \in Nat
  BY <1>2 DEF TypeInv, Types, SourceRec
<1>5. Content(run.row)[c] = source[run.row].tag
  BY <1>2, <1>3 DEF Content
<1> QED BY <1>1, <1>3, <1>4, <1>5

\* Setting an element of a sequence keeps its length.
LEMMA CellIsSet ==
  ASSUME NEW s \in Seq(Nat), NEW c \in Nat, NEW tag \in Nat
  PROVE  LET t == [s EXCEPT ![c] = tag]
         IN  t \in Seq(Nat) /\ DOMAIN t = DOMAIN s /\ Len(t) = Len(s)
<1> DEFINE t == [s EXCEPT ![c] = tag]
<1>1. DOMAIN s = 1..Len(s) /\ Len(s) \in Nat /\ \A b \in 1..Len(s) : s[b] \in Nat
  OBVIOUS
<1>2. t \in [1..Len(s) -> Nat]
  BY <1>1
<1>3. t \in Seq(Nat)
  BY <1>1, <1>2
<1> QED BY <1>1, <1>2, <1>3

\* Writing a cell changes that cell only; the disk may follow at once or later.
LEMMA WrittenCell ==
  ASSUME TypeInv, NEW c \in 1..Size, NEW tag \in Nat
  PROVE  LET w == Written(c, tag) IN
         /\ w \in ChunkRec /\ w.here = wschunk.here
         /\ DOMAIN w.data = DOMAIN wschunk.data /\ Len(w.data) = Len(wschunk.data)
         /\ DOMAIN w.disk = DOMAIN wschunk.disk /\ Len(w.disk) = Len(wschunk.disk)
         /\ wschunk.here => w.data[c] = tag /\ w.disk[c] \in {tag, wschunk.disk[c]}
         /\ \A b \in 1..Size : b # c => w.data[b] = wschunk.data[b] /\ w.disk[b] = wschunk.disk[b]
<1> DEFINE w == Written(c, tag)
           data == [wschunk.data EXCEPT ![c] = tag]
           disk == [wschunk.disk EXCEPT ![c] = IF scene.crash \in {"host", "server"}
                                               THEN wschunk.disk[c] ELSE tag]
<1>1. wschunk \in ChunkRec /\ wschunk.data \in Seq(Nat) /\ wschunk.disk \in Seq(Nat)
      /\ Size \in Nat /\ PartSize
  BY EngineConstants DEF TypeInv, Types, ChunkRec
<1>2. w = [wschunk EXCEPT !.data = data, !.disk = disk]
  BY <1>1 DEF Written, ChunkRec
<1>3. DOMAIN wschunk.data = 1..Len(wschunk.data) /\ DOMAIN wschunk.disk = 1..Len(wschunk.disk)
  BY <1>1
<1>4. data \in Seq(Nat) /\ DOMAIN data = DOMAIN wschunk.data /\ Len(data) = Len(wschunk.data)
  <2>1. c \in Nat /\ tag \in Nat /\ wschunk.data \in Seq(Nat)
    BY <1>1
  <2> QED BY <2>1, CellIsSet
<1>5. c \in DOMAIN wschunk.disk => wschunk.disk[c] \in Nat
  BY <1>1, <1>3
<1>6. disk \in Seq(Nat) /\ DOMAIN disk = DOMAIN wschunk.disk /\ Len(disk) = Len(wschunk.disk)
  <2>1. CASE c \notin DOMAIN wschunk.disk
    <3>1. disk = wschunk.disk
      BY <1>1, <2>1
    <3> QED BY <1>1, <3>1
  <2>2. CASE c \in DOMAIN wschunk.disk /\ scene.crash \in {"host", "server"}
    <3>1. disk = [wschunk.disk EXCEPT ![c] = wschunk.disk[c]]
      BY <2>2
    <3> QED BY <1>1, <1>5, <2>2, <3>1, CellIsSet
  <2>3. CASE scene.crash \notin {"host", "server"}
    <3>1. disk = [wschunk.disk EXCEPT ![c] = tag]
      BY <2>3
    <3>2. c \in Nat /\ tag \in Nat /\ wschunk.disk \in Seq(Nat)
      BY <1>1
    <3> QED BY <3>1, <3>2, CellIsSet
  <2> QED BY <2>1, <2>2, <2>3
<1>7. wschunk.here => c \in DOMAIN wschunk.data /\ c \in DOMAIN wschunk.disk
  BY <1>1, <1>3 DEF PartSize
<1>8. /\ c \in DOMAIN wschunk.data => data[c] = tag
      /\ c \in DOMAIN wschunk.disk => disk[c] \in {tag, wschunk.disk[c]}
      /\ \A b \in 1..Size : b # c => data[b] = wschunk.data[b] /\ disk[b] = wschunk.disk[b]
  BY <1>1, <1>3
<1> HIDE DEF data, disk
<1>9. w \in ChunkRec /\ w.here = wschunk.here /\ w.data = data /\ w.disk = disk
  BY <1>1, <1>2, <1>4, <1>6 DEF ChunkRec
<1> QED BY <1>4, <1>6, <1>7, <1>8, <1>9

\* CopyCell keeps the types: a lane that copies has not reached the end of its range.
LEMMA CopyCellTypes ==
  ASSUME TypeInv, NEW i \in DOMAIN run.lanes, CopyCell(i)
  PROVE  TypeInv'
<1>1. At("copy") /\ run.chunked /\ UNCHANGED <<scene, source, row, wspart, final, faults, clock>>
  BY DEF CopyCell
<1>2. PICK at \in {"copy", "sync"} :
        LaneGoes(i, [run.lanes[i] EXCEPT !.at = at, !.done = @ + 1])
  BY LaneSteps
<1>3. run'.row = run.row /\ run' \in RunRec
  BY <1>2 DEF LaneGoes, Kept
<1>4. wschunk' \in ChunkRec /\ PartSize'
  <2> DEFINE c == Plan[i].off + run.lanes[i].done + 1
             w == Written(c, source[run.row].tag)
  <2>1. c \in 1..Size /\ source[run.row].tag \in Nat /\ wschunk' = w
    BY NextCell
  <2> HIDE DEF c
  <2>2. /\ w \in ChunkRec /\ w.here = wschunk.here
        /\ Len(w.data) = Len(wschunk.data) /\ Len(w.disk) = Len(wschunk.disk)
    BY <2>1, WrittenCell, ZenonT(30)
  <2> QED BY <2>1, <2>2 DEF TypeInv, PartSize
<1>5. Plan' = Plan
  BY <1>1, <1>3 DEF Plan
<1>6. [run.lanes[i] EXCEPT !.at = at, !.done = @ + 1].done = run.lanes[i].done + 1
  BY <1>1, Working DEF LaneRec
<1>7. Stage'
  BY <1>1, <1>2, <1>5, <1>6, LaneStage, NextCell
<1> QED BY <1>1, <1>3, <1>4, <1>7 DEF TypeInv, Types, Plans

\* The steps of a lane that touch nothing but the attempt, and the sync.
LEMMA OtherLaneTypes ==
  ASSUME TypeInv, NEW i \in DOMAIN run.lanes, NEW l, LaneGoes(i, l), At("copy"),
         l.done = run.lanes[i].done,
         UNCHANGED <<scene, source, row, wspart, final, clock>>, faults' \in 0..scene.faults,
         wschunk' \in {wschunk, [wschunk EXCEPT !.disk = wschunk.data]}
  PROVE  TypeInv'
<1>1. run'.row = run.row /\ run' \in RunRec /\ Plan' = Plan
  BY DEF LaneGoes, Kept, Plan
<1>2. wschunk \in ChunkRec /\ PartSize
  BY DEF TypeInv, Types
<1>3. wschunk' \in ChunkRec /\ PartSize'
  BY <1>2 DEF ChunkRec, PartSize
<1>4. Stage'
  BY <1>1, LanesAreChunked, Working, LaneStage
<1> QED BY <1>1, <1>3, <1>4 DEF TypeInv, Types, Plans

\* Each step of a lane keeps the types.
LEMMA LaneTypes ==
  ASSUME TypeInv, NEW i \in DOMAIN run.lanes, LaneStep(i)
  PROVE  TypeInv'
<1> DEFINE l == run.lanes[i]
<1>1. At("copy") /\ l \in LaneRec
  BY LaneIsRec DEF LaneStep, CopyCell, LastCommit, CopyFails, Sync, SyncFails, Checkpoint, TypeInv, Types
<1>2. /\ [l EXCEPT !.at = "sync", !.last = TRUE].done = l.done
      /\ [l EXCEPT !.at = "sync", !.last = TRUE, !.failed = TRUE].done = l.done
      /\ \A at \in LaneAt : [l EXCEPT !.at = at].done = l.done
  BY <1>1 DEF LaneRec
<1>3. Types /\ faults \in 0..scene.faults
  BY DEF TypeInv, Types
<1>4. faults < scene.faults => faults + 1 \in 0..scene.faults
  BY <1>3, SceneIsTyped
<1>5. CASE LastCommit(i)
  BY <1>1, <1>2, <1>3, <1>5, LaneSteps, OtherLaneTypes DEF LastCommit, fileVars
<1>6. CASE CopyFails(i)
  <2>1. faults' \in 0..scene.faults /\ UNCHANGED <<scene, source, row, fileVars, clock>>
    BY <1>3, <1>4, <1>6, SceneIsTyped DEF CopyFails
  <2> QED BY <1>1, <1>2, <1>6, <2>1, LaneSteps, OtherLaneTypes DEF fileVars
<1>7. CASE Sync(i)
  <2>1. /\ wschunk' \in {wschunk, [wschunk EXCEPT !.disk = wschunk.data]}
        /\ UNCHANGED <<scene, source, row, wspart, final, faults, clock>>
    BY <1>7 DEF Sync, SyncBefore, Synced, Unsynced
  <2> QED BY <1>1, <1>2, <1>3, <1>7, <2>1, LaneSteps, OtherLaneTypes DEF LaneAt
<1>8. CASE SyncFails(i)
  <2>1. faults' \in 0..scene.faults /\ UNCHANGED <<scene, source, row, fileVars, clock>>
    BY <1>3, <1>4, <1>8, SceneIsTyped DEF SyncFails
  <2> QED BY <1>1, <1>2, <1>8, <2>1, LaneSteps, OtherLaneTypes DEF fileVars, LaneAt
<1>9. CASE Checkpoint(i)
  <2>1. PICK at \in {"copy", "end"} : LaneGoes(i, [l EXCEPT !.at = at])
    BY <1>9, LaneSteps
  <2>2. /\ row' = [row EXCEPT ![run.row].plan[i].done = l.done]
        /\ UNCHANGED <<scene, source, fileVars, faults, clock>>
    BY <1>9 DEF Checkpoint
  <2>3. /\ run.row \in Rows /\ GoodPlan(Plan) /\ i \in DOMAIN Plan /\ l.done \in Nat
        /\ l.done <= Plan[i].len /\ run.chunked
    BY <1>1, Working, LanesAreChunked
  <2>4. GoodPlan([Plan EXCEPT ![i].done = l.done])
        /\ DOMAIN [Plan EXCEPT ![i].done = l.done] = DOMAIN Plan
        /\ \A j \in DOMAIN Plan : [Plan EXCEPT ![i].done = l.done][j].len = Plan[j].len
    BY <2>3, CheckpointKeepsPlan
  <2>5. SetPlan(run.row, [Plan EXCEPT ![i].done = l.done])
    BY <1>3, <2>2, <2>3 DEF SetPlan, Plan, Types, RowRec
  <2>6. /\ row' \in [Rows -> RowRec] /\ row'[run.row].plan = [Plan EXCEPT ![i].done = l.done]
        /\ \A q \in Rows : q # run.row => row'[q] = row[q]
    BY <1>3, <2>3, <2>4, <2>5, PlanIsSet DEF Types, GoodPlan
  <2>7. Plans'
    BY <2>3, <2>4, <2>6, PlansStayGood
  <2>8. run' \in RunRec /\ run'.row = run.row
    BY <2>1 DEF LaneGoes, Kept
  <2>9. Plan' = [Plan EXCEPT ![i].done = l.done]
    BY <2>6, <2>8 DEF Plan
  <2>10. [l EXCEPT !.at = at].done = l.done
    BY <1>2, <2>1 DEF LaneAt
  <2>11. Stage'
    BY <1>1, <2>1, <2>2, <2>3, <2>4, <2>9, <2>10, LaneStage
  <2> QED BY <1>3, <2>2, <2>6, <2>7, <2>8, <2>11 DEF TypeInv, Types, PartSize, fileVars
<1> QED BY <1>5, <1>6, <1>7, <1>8, <1>9, CopyCellTypes DEF LaneStep

-----------------------------------------------------------------------------
(* The linear engine, publication, and what goes wrong.                    *)

LEMMA LanesReturnTypes ==
  ASSUME TypeInv, LanesReturn
  PROVE  TypeInv'
<1>1. run.chunked /\ Types /\ run.row \in Rows /\ source[run.row].len = Size
  BY RunningRow DEF LanesReturn, At, TypeInv, Stage
<1>2. UNCHANGED <<scene, source, row, fileVars, faults, clock>>
  BY DEF LanesReturn
<1>3. CASE run' = NoRun
  BY <1>1, <1>2, <1>3, IsOver, StageAtRest, OnlyTheRunMoves DEF TypeInv, Types
<1>4. CASE Goto("publish")
  <2>1. /\ run' \in RunRec /\ run'.at = "publish" /\ run'.row = run.row /\ run'.chunked
    BY <1>1, <1>4, GoesOn DEF Types, Stages, Kept
  <2>2. Stage'
    BY <1>1, <1>2, <2>1, NoRowIsZero DEF Stage
  <2> QED BY <1>1, <1>2, <2>1, <2>2, OnlyTheRunMoves DEF TypeInv, Types
<1> QED BY <1>3, <1>4 DEF LanesReturn, Ends

\* An attempt that opens the linear part notes whether it passes for its own.
LEMMA LinearOpens ==
  ASSUME run \in RunRec, OpenLinear
  PROVE  /\ run' \in RunRec /\ run'.at = "copy" /\ Kept /\ run'.chunked = run.chunked
         /\ run'.stop = run.stop /\ run'.dead = run.dead /\ run'.lanes = run.lanes
<1>1. Passes(run.row) \in BOOLEAN
  BY DEF Passes
<1> QED BY <1>1 DEF OpenLinear, RunRec, Stages, Kept

\* OpenLinear keeps the types: it starts from a prefix of the part.
LEMMA OpenLinearTypes ==
  ASSUME TypeInv, OpenLinear
  PROVE  /\ TypeInv' /\ run.row \in Rows /\ run.at = "open" /\ ~run.chunked
         /\ run' \in RunRec /\ run'.at = "copy" /\ Kept /\ ~run'.chunked
         /\ \E n \in 0..Len(wspart.data) : wspart'.data = SubSeq(wspart.data, 1, n)
<1>1. run.row \in Rows /\ run.at = "open" /\ ~run.chunked /\ run.lanes = <<>> /\ Types
      /\ source[run.row].len \in Nat
  BY RunningRow DEF OpenLinear, At, TypeInv, Stage
<1>2. UNCHANGED <<scene, source, row, wschunk, final, faults, clock>>
  BY DEF OpenLinear
<1>3. run' \in RunRec /\ run'.at = "copy" /\ Kept /\ run'.lanes = <<>> /\ ~run'.chunked
  BY <1>1, LinearOpens DEF Types
<1> DEFINE n == ResumeOffset(run.row)
           stamped == IF n = 0 THEN clock ELSE wspart.stamp
<1>4. wspart.data \in Seq(Nat) /\ clock \in Nat /\ wspart.stamp \in Nat
  BY <1>1 DEF Types, PartRec
<1>5. n \in 0..Len(wspart.data) /\ n <= source[run.row].len
  BY <1>1, <1>4 DEF ResumeOffset
<1>6. wspart' = [here |-> TRUE, data |-> SubSeq(wspart.data, 1, n), stamp |-> stamped]
  BY DEF OpenLinear
<1>7. stamped \in Nat
  BY <1>4
<1> HIDE DEF n, stamped
<1>8. SubSeq(wspart.data, 1, n) \in Seq(Nat) /\ Len(SubSeq(wspart.data, 1, n)) = n
  BY <1>4, <1>5
<1>9. wspart' \in PartRec /\ wspart'.data = SubSeq(wspart.data, 1, n) /\ Len(wspart'.data) = n
  BY <1>4, <1>6, <1>7, <1>8 DEF PartRec
<1>10. Types' /\ Plans' /\ PartSize'
  BY <1>1, <1>2, <1>3, <1>9 DEF Types, TypeInv, Plans, PartSize
<1>11. Stage'
  BY <1>1, <1>2, <1>3, <1>5, <1>9, NoRowIsZero DEF Stage, Kept
<1> QED BY <1>1, <1>3, <1>5, <1>9, <1>10, <1>11 DEF TypeInv

\* CopyOn appends a cell of the source, or finds the part as long as the source.
LEMMA CopyOnTypes ==
  ASSUME TypeInv, CopyOn
  PROVE  /\ TypeInv' /\ run.row \in Rows /\ run.at = "copy" /\ ~run.chunked
         /\ run' \in RunRec /\ Kept /\ run'.dead = run.dead /\ ~run'.chunked
         /\ \/ /\ run'.at = "publish" /\ wspart' = wspart
               /\ Len(wspart.data) = source[run.row].len
            \/ /\ run' = run
               /\ wspart'.data = Append(wspart.data, source[run.row].tag)
<1>1. run.row \in Rows /\ run.at = "copy" /\ ~run.chunked /\ run.lanes = <<>> /\ Types
      /\ run \in RunRec
      /\ source[run.row] \in SourceRec /\ Len(wspart.data) <= source[run.row].len
  BY RunningRow DEF CopyOn, At, TypeInv, Stage
<1>2. UNCHANGED <<scene, source, row, wschunk, final, faults, clock>>
  BY DEF CopyOn
<1>3. CASE Len(wspart.data) = source[run.row].len
  <2>1. Goto("publish") /\ wspart' = wspart
    BY <1>3 DEF CopyOn
  <2>2. run' \in RunRec /\ run'.at = "publish" /\ Kept /\ run'.lanes = <<>> /\ ~run'.chunked
        /\ run'.dead = run.dead
    BY <1>1, <2>1, GoesOn DEF Stages, Types
  <2>3. Types' /\ Plans' /\ PartSize'
    BY <1>1, <1>2, <2>1, <2>2 DEF Types, TypeInv, Plans, PartSize
  <2>4. Stage'
    BY <1>1, <2>2, NoRowIsZero DEF Stage, Kept
  <2> QED BY <1>1, <1>3, <2>1, <2>2, <2>3, <2>4 DEF TypeInv
<1>4. CASE Len(wspart.data) # source[run.row].len
  <2> DEFINE len == Len(wspart.data)
             tag == source[run.row].tag
  <2>1. /\ wspart.data \in Seq(Nat) /\ len \in Nat /\ tag \in Nat
        /\ source[run.row].len \in Nat /\ len + 1 <= source[run.row].len
    BY <1>1, <1>4 DEF Types, PartRec, SourceRec
  <2>2. Content(run.row)[len + 1] = tag
    BY <2>1 DEF Content
  <2>3. wspart' = [wspart EXCEPT !.data = Append(wspart.data, tag), !.stamp = clock] /\ run' = run
    BY <1>1, <1>4, <2>2 DEF CopyOn, Types, PartRec
  <2> HIDE DEF tag
  <2>4. Append(wspart.data, tag) \in Seq(Nat) /\ Len(Append(wspart.data, tag)) = len + 1
    BY <2>1
  <2>5. wspart' \in PartRec /\ wspart'.data = Append(wspart.data, tag)
    BY <1>1, <2>3, <2>4 DEF Types, PartRec
  <2>6. Types' /\ Plans' /\ PartSize'
    BY <1>1, <1>2, <2>3, <2>5 DEF Types, TypeInv, Plans, PartSize
  <2>7. Len(wspart'.data) <= source[run.row].len
    BY <2>1, <2>4, <2>5
  <2>8. Stage'
    BY <1>1, <1>2, <2>3, <2>7, NoRowIsZero DEF Stage
  <2> QED BY <1>1, <2>3, <2>5, <2>6, <2>8 DEF TypeInv, Kept, tag
<1> QED BY <1>3, <1>4

\* Publish keeps the types.
LEMMA PublishTypes ==
  ASSUME TypeInv, Publish
  PROVE  /\ TypeInv' /\ run.row \in Rows /\ run.at = "publish" /\ ~run.dead
         /\ run' \in RunRec /\ run'.at = "published" /\ Kept /\ run'.chunked = run.chunked
         /\ run'.dead = run.dead
<1>1. run.row \in Rows /\ run.at = "publish" /\ Types /\ run \in RunRec /\ ~run.dead
  BY RunningRow DEF Publish, At, TypeInv
<1>2. UNCHANGED <<scene, source, row, faults, clock>>
  BY DEF Publish
<1>3. run' \in RunRec /\ run'.at = "published" /\ Kept /\ run'.chunked = run.chunked
      /\ run'.lanes = run.lanes /\ run'.dead = run.dead
  BY <1>1, GoesOn DEF Publish, Stages
<1>4. wspart \in PartRec /\ wschunk \in ChunkRec /\ wspart.data \in Seq(Nat)
      /\ wschunk.data \in Seq(Nat)
  BY <1>1 DEF Types, PartRec, ChunkRec
<1>5. final' \in Seq(Nat) /\ wspart' \in PartRec /\ wschunk' \in ChunkRec /\ PartSize'
  BY <1>4, NoFiles DEF Publish, Rename, Assembled, TypeInv, PartSize
<1>6. Types' /\ Plans'
  BY <1>1, <1>2, <1>3, <1>5 DEF Types, TypeInv, Plans
<1>7. Stage'
  BY <1>1, <1>2, <1>3, NoRowIsZero DEF TypeInv, Stage, Kept
<1> QED BY <1>1, <1>3, <1>5, <1>6, <1>7 DEF TypeInv

\* RemoveOld keeps the types.
LEMMA RemoveOldTypes ==
  ASSUME TypeInv, RemoveOld
  PROVE  TypeInv'
<1>1. final' = <<>> /\ UNCHANGED <<scene, source, row, wspart, wschunk, run, faults, clock>>
  BY DEF RemoveOld
<1> QED BY <1>1 DEF TypeInv, Types, Plans, PartSize, Stage, Plan

\* Finish closes the row and empties its plan; other rows are left alone.
LEMMA FinishTypes ==
  ASSUME TypeInv, Finish
  PROVE  /\ TypeInv' /\ run.row \in Rows /\ run.at = "published" /\ row'[run.row].plan = <<>>
         /\ ~row'[run.row].open
         /\ \A q \in Rows : q # run.row => row'[q] = row[q]
<1>1. run.row \in Rows /\ run.at = "published" /\ Types
  BY RunningRow DEF Finish, At, TypeInv
<1>2. /\ row' = [row EXCEPT ![run.row].plan = <<>>, ![run.row].open = FALSE]
      /\ run' = NoRun /\ UNCHANGED <<scene, source, fileVars, faults, clock>>
  BY DEF Finish, Ends
<1>3. /\ row' \in [Rows -> RowRec] /\ row'[run.row].plan = <<>> /\ ~row'[run.row].open
      /\ \A q \in Rows : q # run.row => row'[q] = row[q]
  BY <1>1, <1>2, EmptyPlan DEF Types, RowRec
<1>4. Plans'
  BY <1>1, <1>3, PlansStayGood
<1> QED BY <1>1, <1>2, <1>3, <1>4, IsOver, StageAtRest DEF TypeInv, Types, PartSize, fileVars

\* An attempt that ends leaves everything but the count of faults as it is.
LEMMA EndingTypes ==
  ASSUME TypeInv, GivesUp \/ AttemptFails \/ AppDies
  PROVE  TypeInv' /\ run' = NoRun /\ UNCHANGED <<scene, source, row, fileVars, clock>>
<1>1. run' = NoRun /\ UNCHANGED <<scene, source, row, fileVars, clock>>
      /\ (faults' = faults \/ (faults < scene.faults /\ faults' = faults + 1))
  BY DEF GivesUp, AttemptFails, AppDies, Ends, Fault
<1>2. faults' \in 0..scene.faults
  BY <1>1, SceneIsTyped DEF TypeInv
<1> QED BY <1>1, <1>2, IsOver, StageAtRest, OnlyTheRunMoves DEF TypeInv

\* Stopped changes nothing but whether the attempt was told to stop.
LEMMA StoppedTypes ==
  ASSUME TypeInv, Stopped
  PROVE  /\ TypeInv' /\ run' \in RunRec /\ Kept /\ run'.at = run.at /\ run'.chunked = run.chunked
         /\ run'.dead = run.dead /\ run'.lanes = run.lanes
         /\ UNCHANGED <<scene, source, row, fileVars, clock>>
<1>1. Types /\ run \in RunRec /\ faults' \in 0..scene.faults
      /\ UNCHANGED <<scene, source, row, fileVars, clock>>
  BY SceneIsTyped DEF Stopped, Fault, TypeInv, Types
<1>2. /\ run' \in RunRec /\ Kept /\ run'.at = run.at /\ run'.chunked = run.chunked
      /\ run'.dead = run.dead /\ run'.lanes = run.lanes
  BY <1>1 DEF Stopped, RunRec, Kept
<1>3. Plan' = Plan /\ run.row # 0
  BY <1>1, <1>2 DEF Plan, Kept, Stopped, At
<1>4. Stage'
  BY <1>1, <1>2, <1>3 DEF TypeInv, Stage, Kept, fileVars
<1> QED BY <1>1, <1>2, <1>4, OnlyTheRunMoves DEF TypeInv

\* HostDies keeps the types.
LEMMA HostDiesTypes ==
  ASSUME TypeInv, HostDies
  PROVE  TypeInv'
<1>1. Types /\ PartSize /\ run' = NoRun /\ FilesCrash /\ faults' \in 0..scene.faults
      /\ UNCHANGED <<scene, source, row, clock>>
  BY SceneIsTyped DEF HostDies, Ends, Fault, TypeInv, Types
<1> QED BY <1>1, CrashLeaves, IsOver, StageAtRest DEF TypeInv, Types, Plans

\* ServerDies keeps the types; the attempt goes on without its connection.
LEMMA ServerDiesTypes ==
  ASSUME TypeInv, ServerDies
  PROVE  /\ TypeInv' /\ run' \in RunRec /\ Kept /\ run'.at = run.at /\ run'.chunked = run.chunked
         /\ run'.dead /\ run'.lanes = run.lanes /\ run.row \in Rows
         /\ UNCHANGED <<scene, source, row, clock>>
<1>1. Types /\ PartSize /\ FilesCrash /\ faults' \in 0..scene.faults /\ run \in RunRec
      /\ UNCHANGED <<scene, source, row, clock>> /\ run.row # 0 /\ run.row \in Rows
  BY SceneIsTyped, RunningRow DEF ServerDies, Fault, TypeInv, Types
<1>2. /\ run' \in RunRec /\ Kept /\ run'.at = run.at /\ run'.chunked = run.chunked
      /\ run'.dead /\ run'.lanes = run.lanes
  BY <1>1 DEF ServerDies, RunRec, Kept
<1>3. Plan' = Plan
  BY <1>1, <1>2 DEF Plan, Kept
<1>4. Types' /\ Plans' /\ PartSize'
  BY <1>1, <1>2, CrashLeaves DEF TypeInv, Types, Plans
<1>5. /\ Len(wspart'.data) \in Nat /\ Len(wspart.data) \in Nat
      /\ Len(wspart'.data) <= Len(wspart.data) /\ source[run.row].len \in Nat
  <2>1. wspart' \in PartRec /\ wspart \in PartRec /\ source[run.row] \in SourceRec
    BY <1>1, <1>4 DEF Types
  <2>2. wspart'.data \in Seq(Nat) /\ wspart.data \in Seq(Nat) /\ source[run.row].len \in Nat
    BY <2>1 DEF PartRec, SourceRec
  <2>3. Len(wspart'.data) <= Len(wspart.data)
    BY <1>1, CrashLeaves
  <2> QED BY <2>2, <2>3
<1>6. Stage'
  BY <1>1, <1>2, <1>3, <1>5 DEF TypeInv, Stage, Kept
<1> QED BY <1>1, <1>2, <1>4, <1>6 DEF TypeInv

\* Replace gives a source a tag that nothing held before.
LEMMA ReplaceTypes ==
  ASSUME TypeInv, NEW r \in Rows, Replace(r)
  PROVE  /\ TypeInv' /\ run = NoRun /\ run' = run /\ clock' = clock + 1
         /\ source'[r].tag = Cardinality(Rows) + clock
         /\ \A q \in Rows : q # r => source'[q] = source[q]
         /\ UNCHANGED <<scene, row, fileVars, faults>>
<1>1. PICK len \in scene.lens, time \in scene.times :
        source' = [source EXCEPT ![r] = [tag |-> Cardinality(Rows) + clock, len |-> len,
                                         mtime |-> CASE time = "new" -> clock + 1
                                                     [] time = "same" -> @.mtime
                                                     [] time = "old" -> 1]]
  BY DEF Replace
<1>2. /\ Types /\ clock \in Nat /\ len \in Nat /\ Cardinality(Rows) \in Nat
      /\ time \in {"new", "same", "old"}
  BY <1>1, SceneIsTyped, EngineConstants, FS_CardinalityType DEF TypeInv, Types
<1>3. source[r].mtime \in Nat
  BY <1>2 DEF Types, SourceRec
<1>4. /\ source' \in [Rows -> SourceRec] /\ source'[r].tag = Cardinality(Rows) + clock
      /\ \A q \in Rows : q # r => source'[q] = source[q]
  <2> DEFINE rec == [tag |-> Cardinality(Rows) + clock, len |-> len,
                     mtime |-> CASE time = "new" -> clock + 1
                                 [] time = "same" -> source[r].mtime
                                 [] time = "old" -> 1]
  <2>1. rec \in SourceRec /\ rec.tag = Cardinality(Rows) + clock
    BY <1>2, <1>3 DEF SourceRec
  <2>2. source' = [source EXCEPT ![r] = rec]
    BY <1>1
  <2> HIDE DEF rec
  <2> QED BY <1>2, <2>1, <2>2 DEF Types
<1>5. run = NoRun /\ run' = run /\ clock' = clock + 1 /\ UNCHANGED <<scene, row, fileVars, faults>>
  BY DEF Replace
<1>6. Types' /\ Plans' /\ PartSize'
  BY <1>2, <1>4, <1>5 DEF TypeInv, Types, Plans, PartSize, fileVars
<1>7. Stage'
  BY <1>5, StageAtRest
<1> QED BY <1>4, <1>5, <1>6, <1>7 DEF TypeInv

\* Every step keeps TypeInv.
LEMMA TypeStep == TypeInv /\ [Next]_vars => TypeInv'
<1> SUFFICES ASSUME TypeInv, [Next]_vars PROVE TypeInv'
  OBVIOUS
<1>1. CASE UNCHANGED vars
  BY <1>1 DEF TypeInv, Types, Plans, PartSize, Stage, Plan, vars, fileVars
<1>2. CASE \E r \in Rows : Start(r)
  BY <1>2, StartTypes
<1>3. CASE RunTransfer
  BY <1>3, ChunkPlanTypes, SourceChangedTypes, RangesTypes, ClearLeftoversTypes, DropPlanTypes,
     OpenChunkedTypes, ChunkStateLostTypes, RemoveLostPartTypes, LaneTypes, LanesReturnTypes,
     OpenLinearTypes, CopyOnTypes, PublishTypes, RemoveOldTypes, FinishTypes, EndingTypes
  DEF RunTransfer
<1>4. CASE Environment
  BY <1>4, StoppedTypes, EndingTypes, HostDiesTypes, ServerDiesTypes, ReplaceTypes DEF Environment
<1> QED BY <1>1, <1>2, <1>3, <1>4 DEF Next

\* The types of Engines, whatever the rows, the size, the lanes and the scenes:
\* every plan tiles its file, no checkpoint and no lane passes the end of its
\* range, and the chunk part has the planned size (chunked.go:367,
\* upload_chunked.go:445).
THEOREM EngineTypes == Spec => []TypeOK
<1>1. TypeInv => TypeOK
  <2> SUFFICES ASSUME TypeInv PROVE TypeOK
    OBVIOUS
  <2>1. \A r \in Rows :
          /\ source[r].tag \in Nat /\ source[r].len \in Nat /\ source[r].mtime \in Nat
          /\ row[r].open \in BOOLEAN /\ row[r].mtime \in Nat /\ row[r].plan \in Seq(RangeRec)
          /\ row[r].plan # <<>> => Usable(row[r].plan, Size)
    BY DEF TypeInv, Types, Plans, GoodPlan, SourceRec, RowRec
  <2>2. /\ scene \in Scenes /\ wspart.here \in BOOLEAN /\ wspart.data \in Data
        /\ wschunk.here \in BOOLEAN /\ wschunk.data \in Data /\ wschunk.disk \in Data
        /\ final \in Data /\ run.row \in Rows \cup {0} /\ faults \in 0..scene.faults
    BY DEF TypeInv, Types, PartRec, ChunkRec, RunRec, Data
  <2>3. \A i \in DOMAIN run.lanes :
          /\ run.lanes[i].at \in LaneAt
          /\ run.at = "copy" => run.lanes[i].done <= row[run.row].plan[i].len
    BY LaneIsRec, LanesAreChunked DEF TypeInv, Types, Stage, Plan, LaneRec
  <2> QED BY <2>1, <2>2, <2>3 DEF TypeOK, TypeInv, PartSize
<1> QED BY <1>1, TypesInit, TypeStep, PTL DEF Spec

-----------------------------------------------------------------------------
(* What is transferred is kept.                                            *)

LEMMA NothingClaimed ==
  ASSUME NEW plan \in Seq(RangeRec), ~HasChunkProgress(plan), NEW i \in DOMAIN plan
  PROVE  Claimed(plan[i]) = {}
<1>1. plan[i] \in RangeRec
  OBVIOUS
<1>2. plan[i].done = 0 /\ plan[i].off \in Nat
  BY <1>1 DEF HasChunkProgress, RangeRec
<1> QED BY <1>2 DEF Claimed

\* A claimed cell is a cell of the file.
LEMMA ClaimedCells ==
  ASSUME NEW plan, GoodPlan(plan), NEW i \in DOMAIN plan, NEW c \in Claimed(plan[i])
  PROVE  /\ c \in 1..Size /\ c \in (plan[i].off + 1)..(plan[i].off + plan[i].len)
         /\ plan[i].done > 0
<1>1. plan[i] \in RangeRec /\ plan[i].off + plan[i].len <= Size /\ plan[i].done <= plan[i].len
  BY RangeEnds
<1>2. Size \in Nat
  BY EngineConstants
<1> QED BY <1>1, <1>2 DEF Claimed, RangeRec

\* A cell is in one range.
LEMMA OneRange ==
  ASSUME NEW plan, GoodPlan(plan), NEW i \in DOMAIN plan, NEW j \in DOMAIN plan, i # j,
         NEW c \in (plan[i].off + 1)..(plan[i].off + plan[i].len)
  PROVE  c \notin (plan[j].off + 1)..(plan[j].off + plan[j].len)
<1>1. /\ plan[i] \in RangeRec /\ plan[j] \in RangeRec /\ i \in Nat /\ j \in Nat /\ Size \in Nat
      /\ Apart(plan)
  BY RangeEnds, EngineConstants DEF GoodPlan
<1>2. CASE i < j
  BY <1>1, <1>2 DEF Apart, RangeRec
<1>3. CASE j < i
  BY <1>1, <1>3 DEF Apart, RangeRec
<1> QED BY <1>1, <1>2, <1>3

\* The cells of the chunk part are numbers, as many on disk as for a reader.
LEMMA PartCells ==
  ASSUME TypeInv
  PROVE  /\ wschunk.data \in Seq(Nat) /\ wschunk.disk \in Seq(Nat) /\ wschunk \in ChunkRec
         /\ DOMAIN wschunk.disk = DOMAIN wschunk.data
         /\ wschunk.here => DOMAIN wschunk.data = 1..Size
         /\ ~wschunk.here => DOMAIN wschunk.data = {}
         /\ \A c \in DOMAIN wschunk.data : wschunk.data[c] \in Nat /\ wschunk.disk[c] \in Nat
<1>1. wschunk.data \in Seq(Nat) /\ wschunk.disk \in Seq(Nat) /\ PartSize /\ Size \in Nat
      /\ wschunk \in ChunkRec
  BY EngineConstants DEF TypeInv, Types, ChunkRec
<1>2. /\ DOMAIN wschunk.data = 1..Len(wschunk.data) /\ DOMAIN wschunk.disk = 1..Len(wschunk.disk)
      /\ \A c \in 1..Len(wschunk.data) : wschunk.data[c] \in Nat
      /\ \A c \in 1..Len(wschunk.disk) : wschunk.disk[c] \in Nat
  BY <1>1
<1> QED BY <1>1, <1>2 DEF PartSize

\* The part stays or goes, and every claim stays or is dropped.
LEMMA PartStaysOrGoes ==
  ASSUME KeepInv, TypeInv', UNCHANGED <<scene, source, clock>>, wschunk' \in {wschunk, NoChunk},
         Download => ~run'.dead,
         \A r \in Rows : row'[r].plan = row[r].plan \/ ~HasChunkProgress(row'[r].plan)
  PROVE  Tags' /\ Durable'
<1>1. Tags'
  BY NoFiles, EmptyPlan DEF KeepInv, Tags
<1>2. ASSUME Download, NEW r \in Rows, NEW i \in DOMAIN row'[r].plan,
             NEW c \in Claimed(row'[r].plan[i]), wschunk'.here, wschunk'.data[c] = source[r].tag
      PROVE  wschunk'.disk[c] = source[r].tag
  <2>1. wschunk' = wschunk
    BY <1>2, NoFiles
  <2>2. row'[r].plan \in Seq(RangeRec)
    BY DEF TypeInv, Types, RowRec
  <2>3. row'[r].plan = row[r].plan
    BY <1>2, <2>2, NothingClaimed
  <2> QED BY <1>2, <2>1, <2>3 DEF KeepInv, Durable
<1>3. Download' = Download
  BY DEF Download
<1> QED BY <1>1, <1>2, <1>3 DEF Durable

\* Nothing a crash could take, and nothing to copy.
LEMMA AtRest ==
  ASSUME run' = NoRun
  PROVE  Before' /\ Copied' /\ ~run'.dead
BY IsOver DEF Before, Copied

\* The invariant before a step, by what its parts say of the running row.
LEMMA KeepInvParts ==
  ASSUME KeepInv
  PROVE  TypeInv /\ Types /\ Tags /\ Before /\ Copied /\ Durable /\ run \in RunRec
         /\ (Download => ~run.dead)
BY DEF KeepInv, TypeInv, Types, Durable

\* KeepInv holds at the start.
LEMMA KeepInit == Init => KeepInv
<1> SUFFICES ASSUME Init PROVE KeepInv
  OBVIOUS
<1>1. TypeInv
  BY TypesInit
<1>2. Cardinality(Rows) \in Nat
  BY EngineConstants, FS_CardinalityType
<1>3. Tags
  BY <1>2, EngineConstants, NoFiles, EmptyPlan DEF Init, Tags
<1>4. Before /\ Copied
  BY DEF Init, Before, Copied, NoRun
<1>5. Durable
  BY NoFiles DEF Init, Durable, NoRun
<1> QED BY <1>1, <1>3, <1>4, <1>5 DEF KeepInv

\* Start keeps KeepInv: it reads the plan as the row has it.
LEMMA StartKeeps ==
  ASSUME KeepInv, NEW r \in Rows, Start(r)
  PROVE  KeepInv'
<1>1. TypeInv' /\ run'.row = r /\ run'.at = "plan" /\ ~run'.chunked /\ ~run'.dead
      /\ run'.mtime = row[r].mtime
  BY KeepInvParts, StartTypes
<1>2. UNCHANGED <<scene, source, row, fileVars, clock>>
  BY DEF Start
<1>3. Tags' /\ Durable'
  BY <1>1, <1>2, PartStaysOrGoes DEF fileVars
<1>4. Before' /\ Copied'
  BY <1>1, <1>2 DEF Before, Copied
<1> QED BY <1>1, <1>3, <1>4 DEF KeepInv

\* ChunkPlan keeps KeepInv: the linear engine is chosen for a plan without progress.
LEMMA ChunkPlanKeeps ==
  ASSUME KeepInv, ChunkPlan
  PROVE  KeepInv'
<1>1. /\ run.row \in Rows /\ run.row # 0 /\ run.at = "plan" /\ Types /\ ~run.chunked /\ run \in RunRec
      /\ Download => ~run.dead
  BY KeepInvParts, RunningRow, NoRowIsZero DEF ChunkPlan, At, TypeInv, Stage
<1>2. UNCHANGED <<scene, source, fileVars, clock>> /\ TypeInv'
  BY KeepInvParts, ChunkPlanTypes DEF ChunkPlan
<1>3. CASE run' = NoRun /\ row' = row
  BY <1>2, <1>3, AtRest, PartStaysOrGoes DEF fileVars, KeepInv
<1>4. CASE Linear /\ row' = row /\ ~(run.asked >= 2 /\ HasChunkProgress(Plan))
  <2>1. run'.at = "clear" /\ Kept /\ ~run'.chunked /\ run'.dead = run.dead
    BY <1>1, <1>4, GoesOn DEF Linear, Stages, Types
  <2>2. Plan' = Plan
    BY <1>4, <2>1 DEF Plan, Kept
  <2>3. Before' /\ Copied'
    BY <1>4, <2>1, <2>2 DEF Before, Copied, Kept
  <2> QED BY <1>1, <1>2, <1>4, <2>1, <2>3, PartStaysOrGoes DEF fileVars, KeepInv
<1>5. CASE row' = row /\ run' = [run EXCEPT !.at = "clear", !.blind = TRUE]
  <2>1. run'.at = "clear" /\ run'.blind /\ ~run'.chunked /\ run'.dead = run.dead
    BY <1>1, <1>5 DEF RunRec
  <2>2. Before' /\ Copied'
    BY <2>1 DEF Before, Copied
  <2> QED BY <1>1, <1>2, <1>5, <2>1, <2>2, PartStaysOrGoes DEF fileVars, KeepInv
<1>6. CASE Goto("changed") /\ SetPlan(run.row, <<>>)
  <2>1. run'.at = "changed" /\ Kept /\ run'.dead = run.dead
    BY <1>1, <1>6, GoesOn DEF Stages, Types
  <2>2. row'[run.row].plan = <<>> /\ \A q \in Rows : q # run.row => row'[q] = row[q]
    BY <1>1, <1>6, PlanIsSet, EmptyPlan DEF Types
  <2>3. Before' /\ Copied'
    BY <2>1, <2>2 DEF Before, Copied, Kept, Plan
  <2>4. \A r \in Rows : row'[r].plan = row[r].plan \/ ~HasChunkProgress(row'[r].plan)
    BY <2>2, EmptyPlan
  <2> QED BY <1>1, <1>2, <2>1, <2>3, <2>4, PartStaysOrGoes DEF fileVars, KeepInv
<1>7. CASE Goto("ranges") /\ row' = row
  <2>1. run'.at = "ranges" /\ Kept /\ run'.dead = run.dead
    BY <1>1, <1>7, GoesOn DEF Stages, Types
  <2>2. Before' /\ Copied'
    BY <2>1 DEF Before, Copied, Kept
  <2> QED BY <1>1, <1>2, <1>7, <2>1, <2>2, PartStaysOrGoes DEF fileVars, KeepInv
<1> QED BY <1>3, <1>4, <1>5, <1>6, <1>7 DEF ChunkPlan, TooNarrow, Ends, Plan

\* SourceChanged keeps KeepInv: the plan went before the part.
LEMMA SourceChangedKeeps ==
  ASSUME KeepInv, SourceChanged
  PROVE  KeepInv'
<1>1. /\ run.row \in Rows /\ run.row # 0 /\ run.at = "changed" /\ ~run.chunked /\ run \in RunRec
      /\ (Download => ~run.dead) /\ Plan = <<>> /\ TypeInv /\ Types
  BY KeepInvParts, RunningRow, NoRowIsZero DEF SourceChanged, At, TypeInv, Stage, Before
<1>2. UNCHANGED <<scene, source, row, wspart, final, faults, clock>> /\ TypeInv'
      /\ wschunk' \in {wschunk, NoChunk}
  BY <1>1, SourceChangedTypes, ChunkPartGoes DEF SourceChanged, Types, TypeInv
<1>3. PICK a \in {"clear", "ranges"} : Goto(a)
  BY DEF SourceChanged, Linear
<1>4. run'.at = a /\ Kept /\ ~run'.chunked /\ run'.dead = run.dead
  BY <1>1, <1>3, GoesOn DEF Stages
<1>5. Plan' = <<>>
  BY <1>1, <1>2, <1>4 DEF Plan, Kept
<1>6. Before' /\ Copied'
  BY <1>4, <1>5, EmptyPlan DEF Before, Copied, Kept
<1> QED BY <1>1, <1>2, <1>4, <1>6, PartStaysOrGoes DEF KeepInv

\* Ranges keeps KeepInv: a plan that is kept is the one that was found.
LEMMA RangesKeeps ==
  ASSUME KeepInv, Ranges
  PROVE  KeepInv'
<1>1. TypeInv /\ (Download => ~run.dead)
  BY KeepInvParts
<1>2. UNCHANGED <<scene, source, fileVars, clock>> /\ TypeInv'
  BY <1>1, RangesTypes DEF Ranges
<1>3. /\ run.row \in Rows /\ run'.at = "clear" /\ run'.row = run.row /\ run'.dead = run.dead
      /\ run'.chunked \/ row'[run.row].plan = <<>>
      /\ \A q \in Rows : q # run.row => row'[q] = row[q]
      /\ row' # row => ~HasChunkProgress(row'[run.row].plan)
  BY <1>1, RangesPlan DEF Kept
<1>4. Plan' = row'[run.row].plan
  BY <1>3 DEF Plan
<1>5. Before' /\ Copied'
  BY <1>3, <1>4, EmptyPlan DEF Before, Copied
<1>6. \A r \in Rows : row'[r].plan = row[r].plan \/ ~HasChunkProgress(row'[r].plan)
  BY <1>3
<1> QED BY <1>1, <1>2, <1>3, <1>5, <1>6, PartStaysOrGoes DEF KeepInv, fileVars

\* ClearLeftovers keeps KeepInv.
LEMMA ClearLeftoversKeeps ==
  ASSUME KeepInv, ClearLeftovers
  PROVE  KeepInv'
<1>1. /\ run.row \in Rows /\ run.row # 0 /\ run.at = "clear" /\ run \in RunRec
      /\ (Download => ~run.dead) /\ TypeInv /\ Types /\ Before
  BY KeepInvParts, RunningRow, NoRowIsZero DEF ClearLeftovers, At
<1>2. UNCHANGED <<scene, source, row, final, faults, clock>> /\ TypeInv'
  BY <1>1, ClearLeftoversTypes DEF ClearLeftovers
<1>3. /\ wschunk' \in {wschunk, NoChunk}
      /\ \/ run.chunked /\ Goto("open")
         \/ ~run.chunked /\ Goto("unplan")
  BY <1>1, ChunkPartGoes DEF ClearLeftovers, Types, TypeInv
<1>4. /\ Kept /\ run'.chunked = run.chunked /\ run'.dead = run.dead
      /\ IF run.chunked THEN run'.at = "open" ELSE run'.at = "unplan"
  BY <1>1, <1>3, GoesOn DEF Stages
<1>5. Plan' = Plan
  BY <1>2, <1>4 DEF Plan, Kept
<1>6. Before' /\ Copied'
  BY <1>1, <1>4, <1>5 DEF Before, Copied, Kept
<1> QED BY <1>1, <1>2, <1>3, <1>4, <1>6, PartStaysOrGoes DEF KeepInv

\* Emptying a plan keeps KeepInv: an empty plan claims nothing.
LEMMA DropPlanKeeps ==
  ASSUME KeepInv, DropPlan \/ ChunkStateLost
  PROVE  KeepInv'
<1>1. /\ run.row \in Rows /\ run.row # 0 /\ run \in RunRec /\ (Download => ~run.dead) /\ TypeInv /\ Types
      /\ SetPlan(run.row, <<>>)
  BY KeepInvParts, RunningRow, NoRowIsZero DEF DropPlan, ChunkStateLost, At
<1>2. UNCHANGED <<scene, source, fileVars, clock>> /\ TypeInv'
  BY <1>1, DropPlanTypes, ChunkStateLostTypes DEF DropPlan, ChunkStateLost
<1>3. PICK a \in {"open", "lostpart"} : Goto(a) /\ (a = "open" => run.at = "unplan")
  BY DEF DropPlan, ChunkStateLost, At
<1>4. run'.at = a /\ Kept /\ run'.dead = run.dead /\ run'.chunked = run.chunked
  BY <1>1, <1>3, GoesOn DEF Stages
<1>5. row'[run.row].plan = <<>> /\ \A q \in Rows : q # run.row => row'[q] = row[q]
  BY <1>1, PlanIsSet, EmptyPlan DEF Types
<1>6. Plan' = <<>>
  BY <1>4, <1>5 DEF Plan, Kept
<1>7. Before' /\ Copied'
  BY <1>4, <1>6 DEF Before, Copied, Kept
<1>8. \A r \in Rows : row'[r].plan = row[r].plan \/ ~HasChunkProgress(row'[r].plan)
  BY <1>5, EmptyPlan
<1> QED BY <1>1, <1>2, <1>4, <1>7, <1>8, PartStaysOrGoes DEF KeepInv, fileVars

\* RemoveLostPart keeps KeepInv.
LEMMA RemoveLostPartKeeps ==
  ASSUME KeepInv, RemoveLostPart
  PROVE  KeepInv'
<1>1. TypeInv' /\ run' = NoRun /\ UNCHANGED <<scene, source, row, clock>>
      /\ wschunk' \in {wschunk, NoChunk}
  BY KeepInvParts, RemoveLostPartTypes, ChunkPartGoes DEF RemoveLostPart, Ends, TypeInv, Types
<1> QED BY <1>1, AtRest, PartStaysOrGoes DEF KeepInv

\* The resume check finds nothing wrong with what can be resumed.
LEMMA ResumableIsVerified ==
  ASSUME TypeInv, NEW r \in Rows, Resumable(r)
  PROVE  Verified(r, wschunk)
<1> DEFINE plan == row[r].plan
<1>1. /\ wschunk.here /\ source[r].len = Size /\ Len(wschunk.data) = Size
      /\ \A i \in DOMAIN plan : \A c \in Claimed(plan[i]) : wschunk.data[c] = source[r].tag
  BY DEF Resumable, TypeInv, PartSize
<1>2. plan # <<>> /\ GoodPlan(plan)
  BY EmptyPlan DEF Resumable, TypeInv, Plans
<1> HIDE DEF plan
<1>3. ASSUME NEW i \in DOMAIN plan, NEW c \in Windows(plan[i])
      PROVE  wschunk.data[c] = Content(r)[c]
  <2>1. plan[i] \in RangeRec /\ c \in {plan[i].off + plan[i].done, plan[i].off + 1} /\ plan[i].done # 0
    BY <1>2, <1>3, RangeEnds DEF Windows
  <2>2. c \in Claimed(plan[i])
    BY <2>1 DEF Claimed, RangeRec
  <2>3. c \in 1..Size
    BY <1>2, <2>2, ClaimedCells
  <2> QED BY <1>1, <2>2, <2>3 DEF Content
<1> QED BY <1>1, <1>3 DEF Verified, plan

\* Lanes that have only started have nothing fresh.
LEMMA StartedLanes ==
  ASSUME GoodPlan(Plan), StartLanes(Plan), run \in RunRec, run.chunked, row' = row, wschunk'.here
  PROVE  Before' /\ Copied' /\ run'.dead = run.dead
<1>1. /\ Kept /\ run'.at = "copy" /\ run'.chunked = run.chunked /\ run'.dead = run.dead
      /\ DOMAIN run'.lanes = DOMAIN Plan
      /\ \A i \in DOMAIN Plan : run'.lanes[i].done = Plan[i].done
  BY LanesStart
<1>2. Plan' = Plan
  BY <1>1 DEF Plan, Kept
<1>3. \A i \in DOMAIN Plan : Plan[i].off \in Nat /\ Plan[i].done \in Nat
  BY RangeEnds DEF RangeRec
<1>4. \A i \in DOMAIN Plan : Fresh(i)' = {}
  BY <1>1, <1>2, <1>3 DEF Fresh
<1>5. \A i \in DOMAIN Plan : Plan'[i].done <= run'.lanes[i].done
  BY <1>1, <1>2, <1>3
<1>6. Copied'
  BY <1>1, <1>4, <1>5 DEF Copied
<1> QED BY <1>1, <1>6 DEF Before

\* OpenChunked keeps KeepInv: lanes start at what their ranges claim.
LEMMA OpenChunkedKeeps ==
  ASSUME KeepInv, OpenChunked
  PROVE  KeepInv'
<1>1. /\ run.row \in Rows /\ run.row # 0 /\ run.chunked /\ run \in RunRec /\ ~run.dead
      /\ TypeInv /\ Types /\ GoodPlan(Plan) /\ UNCHANGED <<scene, source, clock>>
  BY KeepInvParts, OpenChunkedCases, NoRowIsZero
<1>2. TypeInv'
  BY <1>1, OpenChunkedTypes
<1>3. CASE UNCHANGED <<row, wschunk>> /\ Verified(run.row, wschunk) /\ StartLanes(Plan)
  <2>1. wschunk'.here
    BY <1>3 DEF Verified
  <2> QED BY <1>1, <1>2, <1>3, <2>1, StartedLanes, PartStaysOrGoes DEF KeepInv
<1>4. CASE UNCHANGED <<row, wschunk>> /\ ~Verified(run.row, wschunk) /\ Goto("lost")
  <2>1. run'.at = "lost" /\ Kept /\ run'.dead = run.dead
    BY <1>1, <1>4, GoesOn DEF Stages
  <2>2. ~Resumable(run.row)
    BY <1>1, <1>4, ResumableIsVerified
  <2>3. run'.row = run.row /\ row' = row /\ wschunk' = wschunk /\ source' = source
    BY <1>1, <1>4, <2>1 DEF Kept
  <2>4. ~Resumable(run.row)'
    BY <2>2, <2>3 DEF Resumable
  <2>5. Before' /\ Copied'
    BY <2>1, <2>4 DEF Before, Copied
  <2> QED BY <1>1, <1>2, <1>4, <2>1, <2>5, PartStaysOrGoes DEF KeepInv
<1>5. ASSUME ~HasChunkProgress(Plan), row' = row, StartLanes(Plan),
             NEW s \in {wschunk.data, <<>>}, NEW d \in {wschunk.disk, <<>>},
             Download => s = wschunk.data /\ d = wschunk.disk,
             wschunk' = [here |-> TRUE, data |-> Resized(s, Size), disk |-> Resized(d, Size)]
      PROVE  KeepInv'
  <2>1. Before' /\ Copied' /\ run'.dead = run.dead
    BY <1>1, <1>5, StartedLanes
  <2>2. /\ wschunk'.here /\ wschunk'.data = Resized(s, Size) /\ wschunk'.disk = Resized(d, Size)
    BY <1>5
  <2>3. s \in Seq(Nat) /\ d \in Seq(Nat)
    <3>1. <<>> \in Seq(Nat) /\ wschunk.data \in Seq(Nat) /\ wschunk.disk \in Seq(Nat)
      BY <1>1, PartCells
    <3> QED BY <1>5, <3>1
  <2>4. /\ DOMAIN wschunk'.data = 1..Size /\ DOMAIN wschunk'.disk = 1..Size
        /\ \A c \in 1..Size : /\ wschunk'.data[c] = IF c \in DOMAIN s THEN s[c] ELSE Hole
                              /\ wschunk'.disk[c] = IF c \in DOMAIN d THEN d[c] ELSE Hole
    BY <2>2, <2>3, ResizedParts
  <2>5. Tags'
    <3>1. /\ \A c \in DOMAIN s : s[c] < Cardinality(Rows) + clock
          /\ \A c \in DOMAIN d : d[c] < Cardinality(Rows) + clock
      BY EmptyPlan DEF KeepInv, Tags
    <3>2. Hole < Cardinality(Rows) + clock
      BY <1>1, EngineConstants, FS_CardinalityType DEF Hole, Types
    <3> QED BY <1>1, <2>4, <3>1, <3>2 DEF KeepInv, Tags
  <2>6. Durable'
    <3> SUFFICES ASSUME Download, NEW r \in Rows, NEW i \in DOMAIN row[r].plan,
                        NEW c \in Claimed(row[r].plan[i]), wschunk'.data[c] = source[r].tag
                 PROVE  wschunk'.disk[c] = source[r].tag
      BY <1>1, <1>5, <2>1 DEF Durable, Download
    <3>1. row[r].plan # <<>> /\ GoodPlan(row[r].plan)
      BY <1>1, EmptyPlan DEF TypeInv, Plans
    <3>2. c \in 1..Size
      BY <3>1, ClaimedCells
    <3>3. source[r].tag # Hole
      BY DEF KeepInv, Tags, Hole
    <3>4. c \in DOMAIN wschunk.data /\ wschunk.data[c] = source[r].tag
      BY <1>5, <2>4, <3>2, <3>3
    <3>5. wschunk.here /\ DOMAIN wschunk.disk = DOMAIN wschunk.data
      BY <1>1, <3>4, PartCells
    <3>6. wschunk.disk[c] = source[r].tag
      BY <3>4, <3>5 DEF KeepInv, Durable
    <3> QED BY <1>5, <2>4, <3>2, <3>4, <3>5, <3>6
  <2> QED BY <1>2, <2>1, <2>5, <2>6 DEF KeepInv
<1>6. CASE wschunk' = NoChunk /\ SetPlan(run.row, <<>>) /\ run' = [run EXCEPT !.chunked = FALSE]
  <2>1. run'.at = "open" /\ run'.row = run.row /\ ~run'.chunked /\ run'.dead = run.dead
    BY <1>1, <1>6, OpenChunkedCases, KeepInvParts DEF RunRec
  <2>2. row'[run.row].plan = <<>> /\ \A q \in Rows : q # run.row => row'[q] = row[q]
    BY <1>1, <1>6, PlanIsSet, EmptyPlan DEF Types
  <2>3. Before' /\ Copied'
    BY <2>1, <2>2 DEF Before, Copied, Plan
  <2>4. \A r \in Rows : row'[r].plan = row[r].plan \/ ~HasChunkProgress(row'[r].plan)
    BY <2>2, EmptyPlan
  <2> QED BY <1>1, <1>2, <1>6, <2>1, <2>3, <2>4, PartStaysOrGoes DEF KeepInv
<1> QED BY <1>1, <1>3, <1>4, <1>5, <1>6, OpenChunkedCases

\* CopyCell keeps KeepInv: the lane's new cell is beyond every range's claims (Apart).
LEMMA CopyCellKeeps ==
  ASSUME KeepInv, NEW i \in DOMAIN run.lanes, CopyCell(i)
  PROVE  KeepInv'
<1> DEFINE c == Plan[i].off + run.lanes[i].done + 1
           tag == source[run.row].tag
<1>1. /\ At("copy") /\ run.chunked /\ ~run.dead /\ UNCHANGED <<scene, source, row, clock>>
      /\ TypeInv /\ Types /\ run \in RunRec
  BY KeepInvParts DEF CopyCell
<1>2. PICK at \in {"copy", "sync"} :
        LaneGoes(i, [run.lanes[i] EXCEPT !.at = at, !.done = @ + 1])
  BY <1>1, LaneSteps
<1>3. /\ run.row \in Rows /\ GoodPlan(Plan) /\ DOMAIN run.lanes = DOMAIN Plan
      /\ run.lanes[i] \in LaneRec
      /\ \A j \in DOMAIN run.lanes : run.lanes[j] \in LaneRec
  BY <1>1, Working
<1>4. /\ run'.row = run.row /\ run'.at = "copy" /\ run'.chunked /\ ~run'.dead
      /\ DOMAIN run'.lanes = DOMAIN run.lanes
      /\ run'.lanes[i].done = run.lanes[i].done + 1 /\ run'.lanes[i].at # "mark"
      /\ \A j \in DOMAIN run.lanes : j # i => run'.lanes[j] = run.lanes[j]
  BY <1>1, <1>2, <1>3 DEF LaneGoes, Kept, At, LaneRec
<1>5. Plan' = Plan
  BY <1>1, <1>4 DEF Plan
<1>6. /\ \A j \in DOMAIN run.lanes : Plan[j].done <= run.lanes[j].done
      /\ wschunk.here
      /\ \A j \in DOMAIN run.lanes : \A b \in Fresh(j) :
           /\ wschunk.data[b] = tag
           /\ Download /\ run.lanes[j].at = "mark" => wschunk.disk[b] = tag
  BY <1>1 DEF KeepInv, Copied, At
<1>7. c \in 1..Size /\ tag \in Nat /\ wschunk' = Written(c, tag) /\ run.lanes[i].done + 1 <= Plan[i].len
  BY <1>1, NextCell
<1>8. \A j \in DOMAIN Plan : Plan[j] \in RangeRec /\ Plan[j].off + Plan[j].len <= Size
  BY <1>3, RangeEnds
<1>9. \A j \in DOMAIN run.lanes : \A b \in Fresh(j) : b \in 1..Size
  <2> SUFFICES ASSUME NEW j \in DOMAIN run.lanes, NEW b \in Fresh(j) PROVE b \in 1..Size
    OBVIOUS
  <2>1. run.lanes[j].done <= Plan[j].len /\ run.lanes[j] \in LaneRec /\ Size \in Nat
    BY <1>1, Working, EngineConstants
  <2> QED BY <1>3, <1>8, <2>1 DEF Fresh, RangeRec, LaneRec
<1>10. /\ \A j \in DOMAIN run.lanes : j # i => Fresh(j)' = Fresh(j)
       /\ \A b \in Fresh(i)' : b = c \/ b \in Fresh(i)
       /\ c \in (Plan[i].off + 1)..(Plan[i].off + Plan[i].len)
       /\ c \notin Claimed(Plan[i])
  <2>1. /\ Plan[i].off \in Nat /\ Plan[i].done \in Nat /\ Plan[i].len \in Nat
        /\ run.lanes[i].done \in Nat
    BY <1>3, <1>8 DEF RangeRec, LaneRec
  <2>2. Plan[i].done <= run.lanes[i].done
    BY <1>6
  <2>3. \A j \in DOMAIN run.lanes : j # i => Fresh(j)' = Fresh(j)
    BY <1>4, <1>5 DEF Fresh
  <2>4. \A b \in Fresh(i)' : b = c \/ b \in Fresh(i)
    BY <1>4, <1>5, <2>1 DEF Fresh
  <2>5. /\ c \in (Plan[i].off + 1)..(Plan[i].off + Plan[i].len)
        /\ c \notin Claimed(Plan[i])
    BY <1>7, <2>1, <2>2 DEF Claimed
  <2> QED BY <2>3, <2>4, <2>5
<1> HIDE DEF c, tag
<1>11. /\ wschunk'.here /\ wschunk'.data[c] = tag /\ wschunk'.disk[c] \in {tag, wschunk.disk[c]}
       /\ \A b \in 1..Size : b # c => /\ wschunk'.data[b] = wschunk.data[b]
                                      /\ wschunk'.disk[b] = wschunk.disk[b]
       /\ DOMAIN wschunk'.data = DOMAIN wschunk.data /\ DOMAIN wschunk'.disk = DOMAIN wschunk.disk
  <2> DEFINE w == Written(c, tag)
  <2>1. c \in 1..Size /\ tag \in Nat /\ wschunk' = w /\ TypeInv /\ wschunk.here
    BY <1>1, <1>6, <1>7
  <2>2. /\ w.here = wschunk.here /\ w \in ChunkRec
        /\ Len(w.data) = Len(wschunk.data) /\ Len(w.disk) = Len(wschunk.disk)
    BY <2>1, WrittenCell, ZenonT(30)
  <2>4. w.data[c] = tag /\ w.disk[c] \in {tag, wschunk.disk[c]}
    BY <2>1, WrittenCell, ZenonT(30)
  <2>3. \A b \in 1..Size : b # c => w.data[b] = wschunk.data[b] /\ w.disk[b] = wschunk.disk[b]
    BY <2>1, WrittenCell, ZenonT(30)
  <2> HIDE DEF w
  <2>5. DOMAIN w.data = DOMAIN wschunk.data /\ DOMAIN w.disk = DOMAIN wschunk.disk
    BY <2>1, <2>2, PartCells DEF ChunkRec
  <2> QED BY <2>1, <2>2, <2>3, <2>4, <2>5
<1>12. DOMAIN wschunk.data = 1..Size /\ DOMAIN wschunk.disk = 1..Size
  BY <1>1, <1>6, PartCells
<1>13. TypeInv'
  BY <1>1, CopyCellTypes
<1>14. Tags'
  <2>1. tag < Cardinality(Rows) + clock
    BY <1>1, <1>3, EngineConstants, FS_CardinalityType DEF KeepInv, Tags, tag, Types
  <2>2. /\ \A b \in 1..Size : wschunk.data[b] < Cardinality(Rows) + clock
        /\ \A b \in 1..Size : wschunk.disk[b] < Cardinality(Rows) + clock
    BY <1>12 DEF KeepInv, Tags
  <2>3. /\ \A b \in 1..Size : wschunk'.data[b] < Cardinality(Rows) + clock
        /\ \A b \in 1..Size : wschunk'.disk[b] < Cardinality(Rows) + clock
    BY <1>7, <1>11, <2>1, <2>2
  <2> QED BY <1>1, <1>11, <1>12, <2>3 DEF KeepInv, Tags
<1>15. Copied'
  <2>1. \A j \in DOMAIN run'.lanes : Plan'[j].done <= run'.lanes[j].done
    BY <1>3, <1>4, <1>5, <1>6, <1>8 DEF LaneRec, RangeRec
  <2>2. ASSUME NEW j \in DOMAIN run'.lanes, NEW b \in Fresh(j)'
        PROVE  /\ wschunk'.data[b] = tag
               /\ Download /\ run'.lanes[j].at = "mark" => wschunk'.disk[b] = tag
    <3>1. CASE j = i
      BY <1>4, <1>6, <1>9, <1>10, <1>11, <2>2, <3>1
    <3>2. CASE j # i
      BY <1>4, <1>6, <1>9, <1>10, <1>11, <2>2, <3>2
    <3> QED BY <3>1, <3>2
  <2>3. source'[run'.row].tag = tag /\ Download' = Download
    BY <1>1, <1>4 DEF tag, Download
  <2> QED BY <1>11, <2>1, <2>2, <2>3 DEF Copied
<1>16. Durable'
  <2> SUFFICES ASSUME Download, NEW r \in Rows, NEW j \in DOMAIN row[r].plan,
                      NEW b \in Claimed(row[r].plan[j]), wschunk'.data[b] = source[r].tag
               PROVE  wschunk'.disk[b] = source[r].tag
    BY <1>1, <1>4 DEF Durable, Download
  <2>1. row[r].plan # <<>> /\ GoodPlan(row[r].plan)
    BY <1>1, EmptyPlan DEF TypeInv, Plans
  <2>2. b \in 1..Size /\ b \in (row[r].plan[j].off + 1)..(row[r].plan[j].off + row[r].plan[j].len)
    BY <2>1, ClaimedCells
  <2>3. b # c
    <3>1. CASE r # run.row
      <4>1. source[r].tag # tag
        BY <1>3, <3>1 DEF KeepInv, Tags, tag
      <4> QED BY <1>11, <4>1
    <3>2. CASE r = run.row /\ j = i
      BY <1>10, <3>2 DEF Plan
    <3>3. CASE r = run.row /\ j # i
      <4>1. j \in DOMAIN Plan /\ b \in (Plan[j].off + 1)..(Plan[j].off + Plan[j].len)
        BY <2>2, <3>3 DEF Plan
      <4> QED BY <1>3, <1>10, <3>3, <4>1, OneRange
    <3> QED BY <3>1, <3>2, <3>3
  <2> QED BY <1>6, <1>11, <2>2, <2>3 DEF KeepInv, Durable
<1>17. Before'
  BY <1>4 DEF Before
<1> QED BY <1>13, <1>14, <1>15, <1>16, <1>17 DEF KeepInv

\* The steps of a lane between its cells and its checkpoint.
LEMMA OtherLaneKeeps ==
  ASSUME KeepInv, TypeInv', NEW i \in DOMAIN run.lanes, NEW l, LaneGoes(i, l), At("copy"),
         l.done = run.lanes[i].done,
         UNCHANGED <<scene, source, row, clock>>,
         \/ wschunk' = wschunk /\ (l.at # "mark" \/ ~Download)
         \/ wschunk' = [wschunk EXCEPT !.disk = wschunk.data]
  PROVE  KeepInv'
<1>1. /\ run.chunked /\ TypeInv /\ run \in RunRec /\ (Download => ~run.dead)
  BY LanesAreChunked, KeepInvParts
<1>2. /\ run'.row = run.row /\ run'.at = "copy" /\ run'.chunked /\ run'.dead = run.dead
      /\ DOMAIN run'.lanes = DOMAIN run.lanes
      /\ \A j \in DOMAIN run.lanes : run'.lanes[j].done = run.lanes[j].done
      /\ run'.lanes[i].at = l.at
      /\ \A j \in DOMAIN run.lanes : j # i => run'.lanes[j].at = run.lanes[j].at
  BY <1>1 DEF LaneGoes, Kept, At
<1>3. Plan' = Plan /\ \A j \in DOMAIN run.lanes : Fresh(j)' = Fresh(j)
  BY <1>2 DEF Plan, Fresh
<1>4. Before'
  BY <1>1, <1>2 DEF Before
<1>5. Download' = Download
  BY DEF Download
<1>6. CASE wschunk' = wschunk /\ (l.at # "mark" \/ ~Download)
  <2>1. Copied'
    BY <1>1, <1>2, <1>3, <1>5, <1>6 DEF KeepInv, Copied, At
  <2> QED BY <1>1, <1>2, <1>4, <1>6, <2>1, PartStaysOrGoes DEF KeepInv
<1>7. CASE wschunk' = [wschunk EXCEPT !.disk = wschunk.data]
  <2>1. /\ wschunk'.here = wschunk.here /\ wschunk'.data = wschunk.data
        /\ wschunk'.disk = wschunk.data
    BY <1>1, <1>7, PartCells DEF ChunkRec
  <2>2. Copied'
    BY <1>1, <1>2, <1>3, <2>1 DEF KeepInv, Copied, At
  <2>3. Tags' /\ Durable'
    BY <1>1, <1>2, <1>5, <2>1 DEF KeepInv, Tags, Durable
  <2> QED BY <1>4, <2>2, <2>3 DEF KeepInv
<1> QED BY <1>6, <1>7

\* Checkpoint keeps KeepInv: the cells it claims have been copied, and synced on a
\* download; only the plan's own range changes.
LEMMA CheckpointKeeps ==
  ASSUME KeepInv, NEW i \in DOMAIN run.lanes, Checkpoint(i)
  PROVE  /\ KeepInv' /\ run.row \in Rows /\ run'.row = run.row /\ run.chunked
         /\ GoodPlan(Plan) /\ i \in DOMAIN Plan /\ DOMAIN Plan' = DOMAIN Plan
         /\ \A j \in DOMAIN Plan : j # i => Plan'[j] = Plan[j]
         /\ Plan'[i].off = Plan[i].off /\ Plan'[i].done = run.lanes[i].done
         /\ Plan[i].done <= run.lanes[i].done
         /\ \A q \in Rows : q # run.row => row'[q] = row[q]
         /\ row'[run.row].mtime = row[run.row].mtime
         /\ UNCHANGED <<scene, source, wschunk>> /\ run'.dead = run.dead
<1> DEFINE l == run.lanes[i]
<1>1. /\ At("copy") /\ l.at = "mark" /\ TypeInv /\ Types /\ run \in RunRec
      /\ row' = [row EXCEPT ![run.row].plan[i].done = l.done]
      /\ UNCHANGED <<scene, source, fileVars, faults, clock>>
  BY KeepInvParts DEF Checkpoint
<1>2. run.chunked
  BY <1>1, LanesAreChunked
<1>3. /\ run.row \in Rows /\ GoodPlan(Plan) /\ DOMAIN run.lanes = DOMAIN Plan /\ l \in LaneRec
      /\ l.done \in Nat /\ l.done <= Plan[i].len
  BY <1>1, <1>2, Working
<1>4. PICK at \in {"copy", "end"} : LaneGoes(i, [l EXCEPT !.at = at])
  BY <1>1, LaneSteps
<1>5. /\ run'.row = run.row /\ run'.at = "copy" /\ run'.chunked /\ run'.dead = run.dead
      /\ DOMAIN run'.lanes = DOMAIN run.lanes
      /\ run'.lanes[i].done = l.done
      /\ \A j \in DOMAIN run.lanes : j # i => run'.lanes[j] = run.lanes[j]
  BY <1>1, <1>2, <1>3, <1>4 DEF LaneGoes, Kept, At, LaneRec
<1> DEFINE next == [Plan EXCEPT ![i].done = l.done]
<1>6. /\ GoodPlan(next) /\ DOMAIN next = DOMAIN Plan
      /\ \A j \in DOMAIN Plan : next[j].off = Plan[j].off /\ next[j].len = Plan[j].len
      /\ next[i].done = l.done
      /\ \A j \in DOMAIN Plan : j # i => next[j] = Plan[j]
  BY <1>3, CheckpointKeepsPlan
<1>7. SetPlan(run.row, next)
  BY <1>1, <1>3 DEF SetPlan, Plan, Types, RowRec
<1> HIDE DEF next
<1>8. /\ row'[run.row].plan = next /\ row'[run.row].mtime = row[run.row].mtime
      /\ \A q \in Rows : q # run.row => row'[q] = row[q]
  BY <1>1, <1>3, <1>6, <1>7, PlanIsSet DEF Types, GoodPlan
<1>9. Plan' = next
  BY <1>5, <1>8 DEF Plan
<1>10. TypeInv'
  BY <1>1, LaneTypes DEF LaneStep
<1>11. /\ \A j \in DOMAIN run.lanes : Plan[j].done <= run.lanes[j].done
       /\ ~run.dead =>
            /\ wschunk.here
            /\ \A j \in DOMAIN run.lanes : \A c \in Fresh(j) :
                 /\ wschunk.data[c] = source[run.row].tag
                 /\ Download /\ run.lanes[j].at = "mark" => wschunk.disk[c] = source[run.row].tag
  BY <1>1, <1>2 DEF KeepInv, Copied, At
<1>12. Plan[i] \in RangeRec
  BY <1>3, RangeEnds
<1>13. /\ \A j \in DOMAIN run.lanes : j # i => Fresh(j)' = Fresh(j)
       /\ Fresh(i)' = {}
  <2>1. Plan[i].off \in Nat /\ next[i].off = Plan[i].off /\ next[i].done = l.done
    BY <1>3, <1>6, <1>12 DEF RangeRec
  <2> QED BY <1>3, <1>5, <1>6, <1>9, <2>1 DEF Fresh
<1>14. Copied'
  <2>1. \A j \in DOMAIN run'.lanes : Plan'[j].done <= run'.lanes[j].done
    BY <1>3, <1>5, <1>6, <1>9, <1>11
  <2> QED BY <1>1, <1>5, <1>11, <1>13, <2>1 DEF Copied, Download, fileVars
<1>15. Durable'
  <2> SUFFICES ASSUME Download, NEW r \in Rows, NEW j \in DOMAIN row'[r].plan,
                      NEW c \in Claimed(row'[r].plan[j]), wschunk.here,
                      wschunk.data[c] = source[r].tag
               PROVE  wschunk.disk[c] = source[r].tag
    BY <1>1, <1>5, KeepInvParts DEF Durable, Download, fileVars
  <2>1. CASE r # run.row \/ j # i
    <3>1. j \in DOMAIN row[r].plan /\ row'[r].plan[j] = row[r].plan[j]
      BY <1>6, <1>8, <2>1 DEF Plan
    <3> QED BY <3>1 DEF KeepInv, Durable
  <2>2. CASE r = run.row /\ j = i
    <3>1. next[i].off = Plan[i].off /\ next[i].done = l.done
      BY <1>3, <1>6
    <3>2. c \in (Plan[i].off + 1)..(Plan[i].off + l.done)
      BY <1>8, <2>2, <3>1 DEF Claimed
    <3>3. c \in Claimed(Plan[i]) \/ c \in Fresh(i)
      BY <1>3, <1>12, <3>2 DEF Claimed, Fresh, RangeRec
    <3>4. CASE c \in Claimed(Plan[i])
      BY <1>3, <2>2, <3>4 DEF KeepInv, Durable, Plan
    <3>5. CASE c \in Fresh(i)
      BY <1>1, <1>11, <2>2, <3>5, KeepInvParts
    <3> QED BY <3>3, <3>4, <3>5
  <2> QED BY <2>1, <2>2
<1>16. Before'
  BY <1>5 DEF Before
<1>17. Tags'
  BY <1>1 DEF KeepInv, Tags, fileVars
<1>18. KeepInv'
  BY <1>10, <1>14, <1>15, <1>16, <1>17 DEF KeepInv
<1> QED BY <1>1, <1>2, <1>3, <1>5, <1>6, <1>8, <1>9, <1>11, <1>18 DEF fileVars

\* Each step of a lane keeps KeepInv.
LEMMA LaneKeeps ==
  ASSUME KeepInv, NEW i \in DOMAIN run.lanes, LaneStep(i)
  PROVE  KeepInv'
<1> DEFINE l == run.lanes[i]
<1>1. At("copy") /\ l \in LaneRec /\ TypeInv /\ TypeInv'
  BY KeepInvParts, LaneIsRec, LaneTypes
  DEF LaneStep, CopyCell, LastCommit, CopyFails, Sync, SyncFails, Checkpoint
<1>2. /\ [l EXCEPT !.at = "sync", !.last = TRUE].done = l.done
      /\ [l EXCEPT !.at = "sync", !.last = TRUE].at = "sync"
      /\ [l EXCEPT !.at = "sync", !.last = TRUE, !.failed = TRUE].done = l.done
      /\ [l EXCEPT !.at = "sync", !.last = TRUE, !.failed = TRUE].at = "sync"
      /\ [l EXCEPT !.at = "end"].done = l.done /\ [l EXCEPT !.at = "end"].at = "end"
      /\ [l EXCEPT !.at = "mark"].done = l.done
  BY <1>1 DEF LaneRec
<1>3. CASE LastCommit(i) \/ CopyFails(i) \/ SyncFails(i)
  <2>1. UNCHANGED <<scene, source, row, wschunk, clock>>
    BY <1>3 DEF LastCommit, CopyFails, SyncFails, fileVars
  <2> QED BY <1>1, <1>2, <1>3, <2>1, LaneSteps, OtherLaneKeeps
<1>4. CASE Sync(i)
  <2>1. /\ UNCHANGED <<scene, source, row, clock>>
        /\ \/ wschunk' = wschunk /\ ~Download
           \/ wschunk' = [wschunk EXCEPT !.disk = wschunk.data]
    BY <1>4 DEF Sync, SyncBefore, Synced, Unsynced, MaySkipSync
  <2> QED BY <1>1, <1>2, <1>4, <2>1, LaneSteps, OtherLaneKeeps
<1> QED BY <1>3, <1>4, CopyCellKeeps, CheckpointKeeps DEF LaneStep

\* Steps that leave the rows, their sources and the chunk part alone and do not
\* go to the lanes.
LEMMA LinearKeeps ==
  ASSUME KeepInv, LanesReturn \/ OpenLinear \/ CopyOn \/ RemoveOld
  PROVE  KeepInv'
<1>1. /\ TypeInv /\ TypeInv' /\ Types /\ run \in RunRec /\ (Download => ~run.dead)
      /\ Before /\ run.row # 0 /\ UNCHANGED <<scene, source, row, wschunk, clock>>
  BY KeepInvParts, LanesReturnTypes, OpenLinearTypes, CopyOnTypes, RemoveOldTypes
  DEF LanesReturn, OpenLinear, CopyOn, RemoveOld, At, fileVars
<1>2. CASE run' = NoRun
  BY <1>1, <1>2, AtRest, PartStaysOrGoes DEF KeepInv
<1>3. CASE LanesReturn /\ Goto("publish")
  <2>1. run'.at = "publish" /\ run'.chunked /\ run'.dead = run.dead
    BY <1>1, <1>3, GoesOn DEF LanesReturn, Stages
  <2>2. Before' /\ Copied'
    BY <2>1 DEF Before, Copied
  <2> QED BY <1>1, <2>1, <2>2, PartStaysOrGoes DEF KeepInv
<1>4. CASE OpenLinear \/ CopyOn
  <2>1. /\ run.at \in {"open", "copy"} /\ ~run.chunked /\ ~run'.chunked /\ run'.row = run.row
        /\ run'.at \in {"copy", "publish"} /\ ~run.dead /\ ~run'.dead
    <3>1. CASE OpenLinear
      BY <1>1, <3>1, OpenLinearTypes, LinearOpens DEF OpenLinear, Kept
    <3>2. CASE CopyOn
      BY <1>1, <3>2, CopyOnTypes DEF CopyOn, Kept
    <3> QED BY <1>4, <3>1, <3>2
  <2>2. Plan = <<>> /\ Plan' = Plan
    BY <1>1, <2>1 DEF Before, Plan
  <2>3. Before' /\ Copied'
    BY <2>1, <2>2 DEF Before, Copied
  <2> QED BY <1>1, <2>1, <2>3, PartStaysOrGoes DEF KeepInv
<1>5. CASE RemoveOld
  <2>1. run' = run /\ run.at = "publish"
    BY <1>5 DEF RemoveOld, At
  <2>2. Before' /\ Copied'
    BY <1>1, <2>1 DEF Before, Copied, Plan
  <2> QED BY <1>1, <2>1, <2>2, PartStaysOrGoes DEF KeepInv
<1> QED BY <1>2, <1>3, <1>4, <1>5 DEF LanesReturn, Ends

\* Publish keeps KeepInv.
LEMMA PublishKeeps ==
  ASSUME KeepInv, Publish
  PROVE  KeepInv'
<1>1. /\ TypeInv' /\ run.row \in Rows /\ run.at = "publish" /\ ~run.dead /\ run'.at = "published"
      /\ run'.row = run.row /\ run'.chunked = run.chunked /\ ~run'.dead /\ Before
      /\ UNCHANGED <<scene, source, row, clock>>
  BY KeepInvParts, PublishTypes DEF Publish, Kept
<1>2. wschunk' \in {wschunk, NoChunk} /\ (run.chunked => wschunk' = NoChunk)
  BY DEF Publish, Rename
<1>3. Plan' = Plan
  BY <1>1 DEF Plan
<1>4. Before' /\ Copied'
  BY <1>1, <1>2, <1>3, NoFiles, NoRowIsZero DEF Before, Copied
<1> QED BY <1>1, <1>2, <1>4, PartStaysOrGoes DEF KeepInv

\* The ends of an attempt keep KeepInv.
LEMMA EndsKeep ==
  ASSUME KeepInv, Finish \/ GivesUp \/ AttemptFails \/ AppDies
  PROVE  KeepInv'
<1>1. /\ TypeInv' /\ run' = NoRun /\ UNCHANGED <<scene, source, wschunk, clock>>
      /\ \A r \in Rows : row'[r].plan = row[r].plan \/ ~HasChunkProgress(row'[r].plan)
  BY KeepInvParts, FinishTypes, EndingTypes, EmptyPlan DEF Finish, Ends, fileVars
<1> QED BY <1>1, AtRest, PartStaysOrGoes DEF KeepInv

\* Stopped keeps KeepInv.
LEMMA StoppedKeeps ==
  ASSUME KeepInv, Stopped
  PROVE  KeepInv'
<1>1. /\ TypeInv' /\ Kept /\ run'.at = run.at /\ run'.chunked = run.chunked
      /\ run'.dead = run.dead /\ run'.lanes = run.lanes /\ run.at = "copy" /\ run.row # 0
      /\ UNCHANGED <<scene, source, row, wschunk, clock>>
      /\ Before /\ Copied /\ (Download => ~run.dead)
  BY KeepInvParts, StoppedTypes DEF Stopped, At, fileVars
<1>2. Plan' = Plan /\ run'.row = run.row /\ \A i \in DOMAIN run.lanes : Fresh(i)' = Fresh(i)
  BY <1>1 DEF Plan, Kept, Fresh
<1>3. Before' /\ Copied'
  BY <1>1, <1>2 DEF Before, Copied, Download
<1> QED BY <1>1, <1>3, PartStaysOrGoes DEF KeepInv

\* A crash takes back what was not synced, never what a row claims.
LEMMA HostDiesKeeps ==
  ASSUME KeepInv, HostDies
  PROVE  KeepInv'
<1>1. TypeInv /\ TypeInv' /\ Types /\ PartSize /\ FilesCrash /\ run' = NoRun
      /\ UNCHANGED <<scene, source, row, clock>>
  BY KeepInvParts, HostDiesTypes DEF HostDies, Ends, TypeInv
<1>2. /\ wschunk'.here = wschunk.here /\ wschunk'.disk = wschunk'.data
      /\ DOMAIN wschunk'.data = DOMAIN wschunk.data /\ DOMAIN wschunk.disk = DOMAIN wschunk.data
      /\ \A c \in DOMAIN wschunk.data :
              wschunk'.data[c] \in {wschunk.data[c], wschunk.disk[c]}
  BY <1>1, CrashLeaves, PartCells
<1>3. Tags'
  BY <1>1, <1>2 DEF KeepInv, Tags
<1>4. Durable'
  BY <1>1, <1>2, AtRest DEF Durable
<1> QED BY <1>1, <1>3, <1>4, AtRest DEF KeepInv

\* ServerDies keeps KeepInv: an upload's disk may lag, which Durable does not ask of it.
LEMMA ServerDiesKeeps ==
  ASSUME KeepInv, ServerDies
  PROVE  KeepInv'
<1>1. /\ TypeInv /\ TypeInv' /\ Types /\ PartSize /\ FilesCrash /\ Kept /\ run'.at = run.at
      /\ run'.chunked = run.chunked /\ run'.dead /\ run'.lanes = run.lanes /\ ~Download
      /\ UNCHANGED <<scene, source, row, clock>> /\ Before /\ Copied
  BY KeepInvParts, ServerDiesTypes DEF ServerDies, TypeInv
<1>2. /\ wschunk'.here = wschunk.here /\ wschunk'.disk = wschunk'.data
      /\ DOMAIN wschunk'.data = DOMAIN wschunk.data /\ DOMAIN wschunk.disk = DOMAIN wschunk.data
      /\ \A c \in DOMAIN wschunk.data :
              wschunk'.data[c] \in {wschunk.data[c], wschunk.disk[c]}
  BY <1>1, CrashLeaves, PartCells
<1>3. Tags'
  BY <1>1, <1>2 DEF KeepInv, Tags
<1>4. Durable'
  BY <1>1 DEF Durable, Download
<1>5. Plan' = Plan /\ run'.row = run.row
  BY <1>1 DEF Plan, Kept
<1>6. Before' /\ Copied'
  BY <1>1, <1>2, <1>5 DEF Before, Copied, Kept
<1> QED BY <1>1, <1>3, <1>4, <1>6 DEF KeepInv

\* The new source's tag is one that no file holds.
LEMMA ReplaceKeeps ==
  ASSUME KeepInv, NEW r \in Rows, Replace(r)
  PROVE  KeepInv'
<1>1. /\ TypeInv /\ TypeInv' /\ run = NoRun /\ run' = run /\ clock' = clock + 1 /\ Types
      /\ source'[r].tag = Cardinality(Rows) + clock
      /\ \A q \in Rows : q # r => source'[q] = source[q]
      /\ UNCHANGED <<scene, row, wschunk>> /\ Tags /\ Durable
  BY KeepInvParts, ReplaceTypes DEF fileVars
<1>2. Cardinality(Rows) \in Nat /\ clock \in Nat /\ clock # 0
  BY <1>1, EngineConstants, FS_CardinalityType DEF Types
<1>3. \A c \in DOMAIN wschunk.data : wschunk.data[c] \in Nat /\ wschunk.disk[c] \in Nat
  BY <1>1, PartCells
<1>4. DOMAIN wschunk.disk = DOMAIN wschunk.data
  BY <1>1, PartCells
<1>5. Tags'
  BY <1>1, <1>2, <1>3, <1>4 DEF Tags
<1>6. Durable'
  <2> SUFFICES ASSUME Download, NEW q \in Rows, NEW j \in DOMAIN row[q].plan,
                      NEW c \in Claimed(row[q].plan[j]), wschunk.here,
                      wschunk.data[c] = source'[q].tag
               PROVE  wschunk.disk[c] = source'[q].tag
    BY <1>1 DEF Durable, Download, NoRun
  <2>1. CASE q # r
    BY <1>1, <2>1 DEF Durable
  <2>2. CASE q = r
    <3>1. row[q].plan # <<>> /\ GoodPlan(row[q].plan)
      BY <1>1, EmptyPlan DEF TypeInv, Plans
    <3>2. c \in DOMAIN wschunk.data
      BY <1>1, <3>1, ClaimedCells, PartCells
    <3> QED BY <1>1, <1>2, <1>3, <2>2, <3>2 DEF Tags
  <2> QED BY <2>1, <2>2
<1> QED BY <1>1, <1>5, <1>6, AtRest DEF KeepInv

\* Every step keeps KeepInv.
LEMMA KeepStep == KeepInv /\ [Next]_vars => KeepInv'
<1> SUFFICES ASSUME KeepInv, [Next]_vars PROVE KeepInv'
  OBVIOUS
<1>1. CASE UNCHANGED vars
  <2>1. UNCHANGED <<scene, source, row, wschunk, run, clock>> /\ UNCHANGED vars
    BY <1>1 DEF vars, fileVars
  <2>2. TypeInv'
    BY <2>1, TypeStep, KeepInvParts
  <2>3. Tags' /\ Durable'
    BY <2>1, <2>2, KeepInvParts, PartStaysOrGoes
  <2>4. Before'
    BY <2>1 DEF KeepInv, Before, Plan, Resumable
  <2>5. Copied'
    BY <2>1 DEF KeepInv, Copied, Plan, Fresh, Download
  <2> QED BY <2>2, <2>3, <2>4, <2>5 DEF KeepInv
<1>2. CASE \E r \in Rows : Start(r)
  BY <1>2, StartKeeps
<1>3. CASE RunTransfer
  BY <1>3, ChunkPlanKeeps, SourceChangedKeeps, RangesKeeps, ClearLeftoversKeeps, DropPlanKeeps,
     OpenChunkedKeeps, RemoveLostPartKeeps, LaneKeeps, LinearKeeps, PublishKeeps, EndsKeep
  DEF RunTransfer
<1>4. CASE Environment
  BY <1>4, StoppedKeeps, EndsKeep, HostDiesKeeps, ServerDiesKeeps, ReplaceKeeps DEF Environment
<1> QED BY <1>1, <1>2, <1>3, <1>4 DEF Next

-----------------------------------------------------------------------------
(* No step costs a row what it can resume.                                 *)

LEMMA ResumableStays ==
  ASSUME NEW r \in Rows, Resumable(r), source'[r] = source[r],
         row'[r].plan = row[r].plan, row'[r].mtime = row[r].mtime,
         wschunk'.here = wschunk.here, wschunk'.data = wschunk.data
  PROVE  Resumable(r)'
BY DEF Resumable

\* The steps before the lanes, of a row that could be resumed.
LEMMA SetupKeepsResumable ==
  ASSUME KeepInv, NEW r \in Rows, Resumable(r), source'[r] = source[r],
         run.row = r, run.asked >= 2, ~run.blind, ~run'.dead,
         \/ ChunkPlan \/ SourceChanged \/ Ranges \/ ClearLeftovers \/ DropPlan \/ OpenChunked
         \/ ChunkStateLost \/ RemoveLostPart
  PROVE  Resumable(r)'
<1>1. /\ TypeInv /\ Types /\ Before /\ run \in RunRec /\ HasChunkProgress(Plan) /\ Plan # <<>>
      /\ source[r].len = Size /\ row[r].mtime = source[r].mtime /\ wschunk.here
  BY KeepInvParts, EmptyPlan DEF Resumable, Plan
<1>2. CASE ChunkPlan
  <2>1. run.mtime = source[r].mtime
    BY <1>1, <1>2 DEF ChunkPlan, At, Before
  <2>2. row' = row /\ wschunk' = wschunk
    BY <1>1, <1>2, <2>1 DEF ChunkPlan, TooNarrow, Plan, fileVars
  <2> QED BY <2>2, ResumableStays
<1>3. CASE SourceChanged \/ RemoveLostPart
  BY <1>1, <1>3 DEF SourceChanged, RemoveLostPart, At, Before
<1>4. CASE Ranges
  <2>1. row' = row /\ wschunk' = wschunk
    BY <1>1, <1>4, RangesPlan DEF Ranges, fileVars
  <2> QED BY <2>1, ResumableStays
<1>5. CASE ClearLeftovers
  <2>1. run.chunked
    BY <1>1, <1>5 DEF ClearLeftovers, At, Before
  <2>2. row' = row /\ wschunk' = wschunk
    BY <1>5, <2>1 DEF ClearLeftovers
  <2> QED BY <2>2, ResumableStays
<1>6. CASE DropPlan
  BY <1>1, <1>6 DEF DropPlan, At, Before, TypeInv, Stage
<1>7. CASE OpenChunked
  BY <1>1, <1>7, OpenChunkedCases, ResumableStays
<1>8. CASE ChunkStateLost
  <2>1. run' = [run EXCEPT !.at = "lostpart"] /\ run.at = "lost" /\ run.row # 0
    BY <1>8 DEF ChunkStateLost, At, Goto
  <2>2. run'.dead = run.dead
    BY <1>1, <2>1 DEF RunRec
  <2> QED BY <1>1, <2>1, <2>2 DEF Before
<1> QED BY <1>2, <1>3, <1>4, <1>5, <1>6, <1>7, <1>8

\* The steps of the lanes, of a row that could be resumed: what they add to its plan
\* has been copied from its source.
LEMMA LanesKeepResumable ==
  ASSUME KeepInv, NEW r \in Rows, Resumable(r), run.row = r, ~run'.dead,
         NEW i \in DOMAIN run.lanes, LaneStep(i)
  PROVE  Resumable(r)'
<1>1. TypeInv /\ run \in RunRec /\ At("copy") /\ source' = source
  BY KeepInvParts DEF LaneStep, CopyCell, LastCommit, CopyFails, Sync, SyncFails, Checkpoint
<1>2. CASE LastCommit(i) \/ CopyFails(i) \/ SyncFails(i)
  BY <1>1, <1>2, ResumableStays DEF LastCommit, CopyFails, SyncFails, fileVars
<1>3. CASE Sync(i)
  <2>1. row' = row /\ wschunk' \in {wschunk, [wschunk EXCEPT !.disk = wschunk.data]}
    BY <1>3 DEF Sync, SyncBefore, Synced, Unsynced
  <2>2. wschunk'.here = wschunk.here /\ wschunk'.data = wschunk.data
    BY <1>1, <2>1, PartCells DEF ChunkRec
  <2> QED BY <1>1, <2>1, <2>2, ResumableStays
<1>4. CASE CopyCell(i)
  <2> DEFINE c == Plan[i].off + run.lanes[i].done + 1
             tag == source[r].tag
             w == Written(c, tag)
  <2>1. c \in 1..Size /\ tag \in Nat /\ wschunk' = w /\ row' = row
    BY <1>1, <1>4, NextCell DEF CopyCell
  <2> HIDE DEF c, tag
  <2>2. wschunk.here /\ w.here = wschunk.here /\ w.data[c] = tag
    <3>1. wschunk.here
      BY DEF Resumable
    <3>2. w.here = wschunk.here
      BY <1>1, <2>1, WrittenCell
    <3>3. w.data[c] = tag
      BY <1>1, <2>1, <3>1, WrittenCell
    <3> QED BY <3>1, <3>2, <3>3
  <2>3. \A b \in 1..Size : b # c => w.data[b] = wschunk.data[b]
    BY <1>1, <2>1, WrittenCell
  <2> HIDE DEF w
  <2>4. row[r].plan # <<>> /\ GoodPlan(row[r].plan)
    BY <1>1, EmptyPlan DEF Resumable, TypeInv, Plans
  <2>5. \A j \in DOMAIN row[r].plan : \A b \in Claimed(row[r].plan[j]) : b \in 1..Size
    BY <2>4, ClaimedCells
  <2>6. \A j \in DOMAIN row[r].plan : \A b \in Claimed(row[r].plan[j]) : wschunk'.data[b] = tag
    BY <2>1, <2>2, <2>3, <2>5 DEF Resumable, tag
  <2> QED BY <1>1, <2>1, <2>2, <2>6 DEF Resumable, tag
<1>5. CASE Checkpoint(i)
  <2>1. /\ run'.row = run.row /\ run.chunked
        /\ GoodPlan(Plan) /\ i \in DOMAIN Plan /\ DOMAIN Plan' = DOMAIN Plan
        /\ \A j \in DOMAIN Plan : j # i => Plan'[j] = Plan[j]
        /\ Plan'[i].off = Plan[i].off /\ Plan'[i].done = run.lanes[i].done
        /\ Plan[i].done <= run.lanes[i].done
        /\ row'[run.row].mtime = row[run.row].mtime
        /\ UNCHANGED <<source, wschunk>> /\ ~run.dead
    BY <1>5, CheckpointKeeps
  <2>2. Plan = row[r].plan /\ Plan' = row'[r].plan
    BY <2>1 DEF Plan
  <2>3. /\ Plan[i] \in RangeRec /\ run.lanes[i].done \in Nat /\ DOMAIN run.lanes = DOMAIN Plan
        /\ \A j \in DOMAIN Plan : Plan[j].done \in Nat
    BY <1>1, <2>1, RangeEnds, Working DEF RangeRec
  <2>4. HasChunkProgress(row'[r].plan)
    <3>1. PICK j \in DOMAIN Plan : Plan[j].done > 0
      BY <2>2 DEF Resumable, HasChunkProgress
    <3>2. Plan'[j].done > 0
      BY <2>1, <2>3, <3>1
    <3> QED BY <2>1, <2>2, <3>2 DEF HasChunkProgress
  <2>5. \A c \in Fresh(i) : wschunk.data[c] = source[r].tag
    BY <1>1, <2>1 DEF KeepInv, Copied, At
  <2>6. ASSUME NEW j \in DOMAIN Plan', NEW c \in Claimed(Plan'[j])
        PROVE  wschunk.data[c] = source[r].tag
    <3>1. CASE j # i
      BY <2>1, <2>2, <2>6, <3>1 DEF Resumable
    <3>2. CASE j = i
      <4>1. c \in Claimed(Plan[i]) \/ c \in Fresh(i)
        BY <2>1, <2>3, <2>6, <3>2 DEF Claimed, Fresh, RangeRec
      <4> QED BY <2>1, <2>2, <2>5, <4>1 DEF Resumable
    <3> QED BY <3>1, <3>2
  <2> QED BY <2>1, <2>2, <2>4, <2>6 DEF Resumable
<1> QED BY <1>2, <1>3, <1>4, <1>5 DEF LaneStep

\* No step of ResumableIsKept costs a row what it could resume, but publication.
LEMMA StepsKeepResumable ==
  ASSUME KeepInv, Next, NEW r \in Rows, Resumable(r), source'[r] = source[r],
         run.row # 0 => run.row = r /\ run.asked >= 2 /\ ~run.blind /\ ~run'.dead
  PROVE  Resumable(r)' \/ run'.at = "published"
<1>1. TypeInv /\ Types /\ Before /\ Durable /\ run \in RunRec
  BY KeepInvParts
<1>2. CASE \/ \E q \in Rows : Start(q) \/ Replace(q)
           \/ LanesReturn \/ OpenLinear \/ CopyOn \/ RemoveOld
           \/ GivesUp \/ AttemptFails \/ AppDies \/ Stopped
  <2>1. row' = row /\ wschunk' = wschunk
    BY <1>2 DEF Start, Replace, LanesReturn, OpenLinear, CopyOn, RemoveOld, GivesUp,
                AttemptFails, AppDies, Stopped, fileVars
  <2> QED BY <2>1, ResumableStays
<1>3. CASE \/ ChunkPlan \/ SourceChanged \/ Ranges \/ ClearLeftovers \/ DropPlan \/ OpenChunked
           \/ ChunkStateLost \/ RemoveLostPart
  <2>1. run.row # 0
    BY <1>3 DEF ChunkPlan, SourceChanged, Ranges, ClearLeftovers, DropPlan, OpenChunked,
                ChunkStateLost, RemoveLostPart, At
  <2> QED BY <1>3, <2>1, SetupKeepsResumable
<1>4. CASE \E i \in DOMAIN run.lanes : LaneStep(i)
  <2>1. run.row # 0
    BY <1>4 DEF LaneStep, CopyCell, LastCommit, CopyFails, Sync, SyncFails, Checkpoint, At
  <2> QED BY <1>4, <2>1, LanesKeepResumable
<1>5. CASE Publish
  BY <1>1, <1>5, PublishTypes
<1>6. CASE Finish
  <2>1. run.row = r /\ run.at = "published" /\ run.row # 0
    BY <1>6 DEF Finish, At
  <2>2. Plan = row[r].plan /\ ~HasChunkProgress(<<>>)
    BY <2>1, EmptyPlan DEF Plan
  <2> QED BY <1>1, <2>1, <2>2 DEF Before, Resumable
<1>7. CASE HostDies
  <2>1. Download /\ FilesCrash /\ row' = row /\ PartSize
    BY <1>1, <1>7 DEF HostDies, TypeInv
  <2>2. /\ wschunk'.here = wschunk.here
        /\ \A c \in DOMAIN wschunk.data : wschunk'.data[c] \in {wschunk.data[c], wschunk.disk[c]}
    BY <1>1, <2>1, CrashLeaves
  <2>3. row[r].plan # <<>> /\ GoodPlan(row[r].plan)
    BY <1>1, EmptyPlan DEF Resumable, TypeInv, Plans
  <2>4. DOMAIN wschunk.data = 1..Size
    BY <1>1, PartCells DEF Resumable
  <2>5. ASSUME NEW i \in DOMAIN row[r].plan, NEW c \in Claimed(row[r].plan[i])
        PROVE  wschunk'.data[c] = source[r].tag
    <3>1. c \in 1..Size
      BY <2>3, ClaimedCells
    <3>2. wschunk.here /\ wschunk.data[c] = source[r].tag
      BY <2>5 DEF Resumable
    <3>3. wschunk.disk[c] = source[r].tag
      BY <1>1, <2>1, <3>2 DEF Durable
    <3> QED BY <2>2, <2>4, <3>1, <3>2, <3>3
  <2> QED BY <2>1, <2>2, <2>5 DEF Resumable
<1>8. CASE ServerDies
  BY <1>1, <1>8, ServerDiesTypes DEF ServerDies
<1> QED BY <1>2, <1>3, <1>4, <1>5, <1>6, <1>7, <1>8 DEF Next, RunTransfer, Environment

\* Transferred bytes are not thrown away (dispatcher.go:783-790, chunked.go:100-102,
\* 364-367), for every number of rows and lanes, every size and every scene: no
\* step of the attempts of a row that can be resumed, and no crash of the app or
\* of its machine, takes from it what it could resume.
THEOREM ResumableBytesAreKept == Spec => ResumableIsKept
<1>1. KeepInv /\ [Next]_vars =>
        [\A r \in Rows :
          /\ Resumable(r) /\ source'[r] = source[r]
          /\ run.row # 0 => run.row = r /\ run.asked >= 2 /\ ~run.blind /\ ~run'.dead
          => Resumable(r)' \/ run'.at = "published"]_vars
  BY StepsKeepResumable
<1> QED BY <1>1, KeepInit, KeepStep, PTL DEF Spec, ResumableIsKept

-----------------------------------------------------------------------------
(* What is published is whole, where nothing else reaches the files.       *)

\* One row has the destination to itself, its source is not replaced and no
\* server crashes.  The app and its machine may.
Undisturbed == \E me \in Rows : scene.rows = {me} /\ scene.edits = 0 /\ scene.crash # "server"

\* Every cell there is, and every cell that is claimed, is the source's.
Sole(me) ==
  /\ scene.rows = {me} /\ scene.edits = 0 /\ scene.crash # "server"
  /\ source[me].len = Size /\ run.row \in {0, me} /\ ~run.dead
  /\ \A r \in Rows : row[r].open => r = me
  /\ \A c \in DOMAIN wspart.data : wspart.data[c] = source[me].tag
  /\ wschunk.here => \A i \in DOMAIN row[me].plan : \A c \in Claimed(row[me].plan[i]) :
                       wschunk.data[c] = source[me].tag
  /\ run.at = "publish" =>
       IF run.chunked THEN wschunk.here /\ \A c \in 1..Size : wschunk.data[c] = source[me].tag
       ELSE Len(wspart.data) = Size

\* Sole holds at the start.
LEMMA SoleInit ==
  ASSUME NEW me \in Rows, Init, scene.rows = {me}, scene.edits = 0, scene.crash # "server"
  PROVE  Sole(me)
BY NoFiles, EmptyPlan DEF Init, Sole, NoRun

\* Steps that change no cell.
LEMMA SoleStays ==
  ASSUME KeepInv, TypeInv', NEW me \in Rows, Sole(me), UNCHANGED <<scene, source>>,
         wspart' \in {wspart, NoPart}, wschunk' \in {wschunk, NoChunk},
         run'.row \in {0, run.row}, run'.dead => run.dead,
         \A r \in Rows : row'[r].open => row[r].open,
         row'[me].plan = row[me].plan \/ ~HasChunkProgress(row'[me].plan),
         run'.at = "publish" => run' = run /\ wspart' = wspart /\ wschunk' = wschunk
  PROVE  Sole(me)'
<1>1. \A c \in DOMAIN wspart'.data : wspart'.data[c] = source[me].tag
  BY NoFiles, EmptyPlan DEF Sole
<1>2. row'[me].plan \in Seq(RangeRec)
  BY DEF TypeInv, Types, RowRec
<1>3. wschunk'.here => \A i \in DOMAIN row'[me].plan : \A c \in Claimed(row'[me].plan[i]) :
                         wschunk'.data[c] = source[me].tag
  BY <1>2, NothingClaimed, NoFiles DEF Sole
<1> QED BY <1>1, <1>3 DEF Sole

\* What OpenChunked makes of a part claims nothing, or is as it was.
LEMMA OpenChunkedSole ==
  ASSUME KeepInv, NEW me \in Rows, Sole(me), OpenChunked
  PROVE  Sole(me)'
<1>1. /\ TypeInv /\ Types /\ run \in RunRec /\ run.row \in Rows /\ GoodPlan(Plan) /\ run.row = me
      /\ run.chunked /\ ~run.dead /\ UNCHANGED <<scene, source, wspart>> /\ TypeInv'
  BY KeepInvParts, OpenChunkedCases, OpenChunkedTypes, NoRowIsZero DEF Sole
<1>2. /\ run'.row = run.row /\ ~run'.dead /\ run'.at # "publish"
  <2>1. CASE StartLanes(Plan)
    BY <1>1, <2>1, LanesStart DEF Kept
  <2>2. CASE Goto("lost")
    BY <1>1, <2>2, GoesOn DEF Kept, Stages
  <2>3. CASE run' = [run EXCEPT !.chunked = FALSE]
    BY <1>1, <2>3, KeepInvParts, OpenChunkedCases DEF RunRec
  <2> QED BY <1>1, <2>1, <2>2, <2>3, KeepInvParts, OpenChunkedCases
<1>3. /\ \A r \in Rows : row'[r].open = row[r].open
      /\ row'[me].plan = Plan \/ row'[me].plan = <<>>
  <2>1. CASE row' = row
    BY <1>1, <2>1 DEF Plan
  <2>2. CASE SetPlan(run.row, <<>>)
    BY <1>1, <2>2, PlanIsSet, EmptyPlan DEF Types
  <2> QED BY <1>1, <2>1, <2>2, KeepInvParts, OpenChunkedCases
<1>4. CASE wschunk' = wschunk
  BY <1>1, <1>2, <1>3, <1>4, EmptyPlan, SoleStays DEF Plan
<1>5. CASE ~HasChunkProgress(Plan)
  <2>1. ~HasChunkProgress(row'[me].plan) /\ row'[me].plan \in Seq(RangeRec)
    BY <1>1, <1>3, <1>5, EmptyPlan DEF TypeInv, Types, RowRec
  <2>2. \A i \in DOMAIN row'[me].plan : Claimed(row'[me].plan[i]) = {}
    BY <2>1, NothingClaimed
  <2> QED BY <1>1, <1>2, <1>3, <2>2 DEF Sole
<1> QED BY <1>4, <1>5, KeepInvParts, OpenChunkedCases

\* The lanes' steps keep Sole: they write and claim cells of the one source.
LEMMA LanesSole ==
  ASSUME KeepInv, NEW me \in Rows, Sole(me), NEW i \in DOMAIN run.lanes, LaneStep(i)
  PROVE  Sole(me)'
<1>1. /\ TypeInv /\ TypeInv' /\ run \in RunRec /\ At("copy") /\ run.row = me /\ run.chunked
      /\ UNCHANGED <<scene, source, wspart>>
  BY KeepInvParts, LaneTypes, LanesAreChunked
  DEF LaneStep, CopyCell, LastCommit, CopyFails, Sync, SyncFails, Checkpoint, At, Sole, fileVars
<1>2. run'.row = me /\ ~run'.dead /\ run'.at = "copy"
  BY <1>1, LaneSteps DEF LaneStep, LaneGoes, Kept, At, Sole
<1>3. CASE LastCommit(i) \/ CopyFails(i) \/ SyncFails(i) \/ Sync(i)
  <2>1. row' = row /\ wschunk' \in {wschunk, [wschunk EXCEPT !.disk = wschunk.data]}
    BY <1>3 DEF LastCommit, CopyFails, SyncFails, Sync, SyncBefore, Synced, Unsynced, fileVars
  <2>2. wschunk'.here = wschunk.here /\ wschunk'.data = wschunk.data
    BY <1>1, <2>1, PartCells DEF ChunkRec
  <2> QED BY <1>1, <1>2, <2>1, <2>2 DEF Sole
<1>4. CASE CopyCell(i)
  <2> DEFINE c == Plan[i].off + run.lanes[i].done + 1
             tag == source[me].tag
             w == Written(c, tag)
  <2>1. c \in 1..Size /\ tag \in Nat /\ wschunk' = w /\ row' = row
    BY <1>1, <1>4, NextCell DEF CopyCell
  <2>2. wschunk.here
    BY <1>1 DEF KeepInv, Copied, At, Sole
  <2> HIDE DEF c, tag
  <2>8. TypeInv
    BY <1>1
  <2>3. w.here = wschunk.here
    BY <2>1, <2>8, WrittenCell
  <2>4. w.data[c] = tag
    BY <2>1, <2>2, <2>8, WrittenCell
  <2>5. \A b \in 1..Size : b # c => w.data[b] = wschunk.data[b]
    BY <2>1, <2>8, WrittenCell, ZenonT(30)
  <2> HIDE DEF w
  <2>6. \A j \in DOMAIN row[me].plan : \A b \in Claimed(row[me].plan[j]) : b \in 1..Size
    BY <1>1, Working, ClaimedCells DEF Plan
  <2>7. \A j \in DOMAIN row[me].plan : \A b \in Claimed(row[me].plan[j]) : wschunk'.data[b] = tag
    BY <2>1, <2>2, <2>4, <2>5, <2>6 DEF Sole, tag
  <2> QED BY <1>1, <1>2, <2>1, <2>7 DEF Sole, tag
<1>5. CASE Checkpoint(i)
  <2>1. /\ GoodPlan(Plan) /\ i \in DOMAIN Plan /\ DOMAIN Plan' = DOMAIN Plan
        /\ \A j \in DOMAIN Plan : j # i => Plan'[j] = Plan[j]
        /\ Plan'[i].off = Plan[i].off /\ Plan'[i].done = run.lanes[i].done
        /\ Plan[i].done <= run.lanes[i].done /\ wschunk' = wschunk
    BY <1>5, CheckpointKeeps
  <2>2. Plan = row[me].plan /\ Plan' = row'[me].plan
    BY <1>1, <1>2 DEF Plan
  <2>3. Plan[i] \in RangeRec /\ run.lanes[i].done \in Nat
    BY <1>1, <2>1, RangeEnds, Working
  <2>4. wschunk.here /\ \A c \in Fresh(i) : wschunk.data[c] = source[me].tag
    BY <1>1 DEF KeepInv, Copied, At, Sole
  <2>5. ASSUME NEW j \in DOMAIN Plan', NEW c \in Claimed(Plan'[j])
        PROVE  wschunk.data[c] = source[me].tag
    <3>1. CASE j # i
      BY <2>1, <2>2, <2>4, <2>5, <3>1 DEF Sole
    <3>2. CASE j = i
      <4>1. c \in Claimed(Plan[i]) \/ c \in Fresh(i)
        BY <2>1, <2>3, <2>5, <3>2 DEF Claimed, Fresh, RangeRec
      <4> QED BY <2>1, <2>2, <2>4, <4>1 DEF Sole
    <3> QED BY <3>1, <3>2
  <2>6. \A r \in Rows : row'[r].open = row[r].open
    BY <1>1, <1>5 DEF Checkpoint, TypeInv, Types, RowRec
  <2> QED BY <1>1, <1>2, <2>1, <2>2, <2>5, <2>6 DEF Sole
<1> QED BY <1>3, <1>4, <1>5 DEF LaneStep

\* All ranges are through, so every cell is claimed.
LEMMA LanesReturnSole ==
  ASSUME KeepInv, NEW me \in Rows, Sole(me), LanesReturn
  PROVE  Sole(me)'
<1>1. /\ TypeInv /\ TypeInv' /\ run \in RunRec /\ run.at = "copy" /\ run.row = me /\ run.chunked
      /\ UNCHANGED <<scene, source, row, wspart, wschunk>>
  BY KeepInvParts, LanesReturnTypes DEF LanesReturn, At, Sole, fileVars
<1>2. CASE run' = NoRun
  BY <1>1, <1>2, IsOver, SoleStays
<1>3. CASE Goto("publish") /\ Complete(Plan)
  <2>1. run'.row = me /\ run'.at = "publish" /\ run'.chunked /\ ~run'.dead
    BY <1>1, <1>3, GoesOn DEF Stages, Kept, Sole
  <2>2. GoodPlan(Plan) /\ wschunk.here
    BY <1>1, NoRowIsZero, RunningRow DEF KeepInv, Copied, Sole, TypeInv, Stage
  <2>3. ASSUME NEW c \in 1..Size PROVE wschunk.data[c] = source[me].tag
    <3>1. PICK j \in DOMAIN Plan : c \in (Plan[j].off + 1)..(Plan[j].off + Plan[j].len)
      BY <2>2 DEF GoodPlan, Covers
    <3>2. c \in Claimed(Plan[j])
      BY <1>3, <3>1 DEF Complete, Claimed
    <3> QED BY <1>1, <2>2, <3>2 DEF Sole, Plan
  <2> QED BY <1>1, <2>1, <2>2, <2>3 DEF Sole
<1> QED BY <1>1, <1>2, <1>3 DEF LanesReturn, Ends, Plan

\* The linear engine's steps keep Sole: the part is a prefix of the source.
LEMMA LinearSole ==
  ASSUME KeepInv, NEW me \in Rows, Sole(me), OpenLinear \/ CopyOn
  PROVE  Sole(me)'
<1>1. /\ TypeInv /\ TypeInv' /\ Types /\ run.row = me /\ UNCHANGED <<scene, source, row, wschunk>>
      /\ source[me].tag \in Nat /\ wspart.data \in Seq(Nat) /\ run.row # 0
  BY KeepInvParts, OpenLinearTypes, CopyOnTypes, NoRowIsZero
  DEF OpenLinear, CopyOn, At, Sole, Types, SourceRec, PartRec
<1>2. CASE OpenLinear
  <2>1. PICK n \in 0..Len(wspart.data) : wspart'.data = SubSeq(wspart.data, 1, n)
    BY <1>1, <1>2, OpenLinearTypes
  <2>2. \A c \in DOMAIN wspart'.data : c \in DOMAIN wspart.data /\ wspart'.data[c] = wspart.data[c]
    BY <1>1, <2>1
  <2>3. run'.row = run.row /\ run'.at = "copy" /\ run'.dead = run.dead
    BY <1>1, <1>2, LinearOpens DEF Types, Kept
  <2> QED BY <1>1, <2>2, <2>3 DEF Sole
<1>3. CASE CopyOn
  <2>1. /\ run'.row = run.row /\ run'.dead = run.dead /\ ~run'.chunked /\ run.at = "copy"
        /\ \/ run'.at = "publish" /\ wspart' = wspart /\ Len(wspart.data) = source[me].len
           \/ run' = run /\ wspart'.data = Append(wspart.data, source[me].tag)
    BY <1>1, <1>3, CopyOnTypes DEF Kept
  <2>2. CASE run'.at = "publish" /\ wspart' = wspart /\ Len(wspart.data) = source[me].len
    BY <1>1, <2>1, <2>2 DEF Sole
  <2>3. CASE run' = run /\ wspart'.data = Append(wspart.data, source[me].tag)
    <3>1. \A c \in DOMAIN wspart'.data :
            \/ c \in DOMAIN wspart.data /\ wspart'.data[c] = wspart.data[c]
            \/ wspart'.data[c] = source[me].tag
      BY <1>1, <2>3
    <3> QED BY <1>1, <2>1, <2>3, <3>1 DEF Sole
  <2> QED BY <2>1, <2>2, <2>3
<1> QED BY <1>2, <1>3

\* HostDies keeps Sole: what a download's plan claims is on its disk (Durable).
LEMMA HostDiesSole ==
  ASSUME KeepInv, NEW me \in Rows, Sole(me), HostDies
  PROVE  Sole(me)'
<1>1. /\ TypeInv /\ Types /\ PartSize /\ Durable /\ Download /\ FilesCrash /\ run' = NoRun
      /\ UNCHANGED <<scene, source, row>>
  BY KeepInvParts DEF HostDies, Ends, TypeInv
<1>2. /\ \A c \in DOMAIN wspart'.data : c \in DOMAIN wspart.data /\ wspart'.data[c] = wspart.data[c]
      /\ wschunk'.here = wschunk.here
      /\ \A c \in DOMAIN wschunk.data : wschunk'.data[c] \in {wschunk.data[c], wschunk.disk[c]}
  BY <1>1, CrashLeaves
<1>3. ASSUME wschunk.here, NEW i \in DOMAIN row[me].plan, NEW c \in Claimed(row[me].plan[i])
      PROVE  wschunk'.data[c] = source[me].tag
  <2>1. row[me].plan # <<>> /\ GoodPlan(row[me].plan)
    BY <1>1, EmptyPlan DEF TypeInv, Plans
  <2>2. c \in DOMAIN wschunk.data
    BY <1>1, <1>3, <2>1, ClaimedCells, PartCells
  <2>3. wschunk.data[c] = source[me].tag
    BY <1>3 DEF Sole
  <2>4. wschunk.disk[c] = source[me].tag
    BY <1>1, <1>3, <2>3 DEF Durable
  <2> QED BY <1>2, <2>2, <2>3, <2>4
<1> QED BY <1>1, <1>2, <1>3, IsOver DEF Sole


\* A row's plan after a step that sets or keeps it.
LEMMA PlanKeptOrDropped ==
  ASSUME Types, run.row \in Rows, row' = row \/ SetPlan(run.row, <<>>)
  PROVE  \A r \in Rows : /\ row'[r].open = row[r].open
                         /\ row'[r].plan = row[r].plan \/ ~HasChunkProgress(row'[r].plan)
<1>1. CASE row' = row
  BY <1>1
<1>2. CASE SetPlan(run.row, <<>>)
  <2>1. /\ row'[run.row].open = row[run.row].open /\ row'[run.row].plan = <<>>
        /\ \A q \in Rows : q # run.row => row'[q] = row[q]
    BY <1>2, PlanIsSet, EmptyPlan DEF Types
  <2> QED BY <2>1, EmptyPlan
<1> QED BY <1>1, <1>2

\* The steps before the lanes drop parts and plans, and write no cell.
LEMMA SetupSole ==
  ASSUME KeepInv, NEW me \in Rows, Sole(me),
         \/ ChunkPlan \/ SourceChanged \/ Ranges \/ ClearLeftovers \/ DropPlan
         \/ ChunkStateLost \/ RemoveLostPart
  PROVE  Sole(me)'
<1>1. TypeInv /\ Types /\ PartSize /\ run \in RunRec
  BY KeepInvParts DEF TypeInv
<1>2. run.row \in Rows
  BY <1>1, RunningRow DEF ChunkPlan, SourceChanged, Ranges, ClearLeftovers, DropPlan,
                          ChunkStateLost, RemoveLostPart, At
<1>3. TypeInv'
  BY <1>1, ChunkPlanTypes, SourceChangedTypes, RangesTypes, ClearLeftoversTypes, DropPlanTypes,
     ChunkStateLostTypes, RemoveLostPartTypes
<1>4. /\ UNCHANGED <<scene, source>> /\ wspart' \in {wspart, NoPart}
      /\ wschunk' \in {wschunk, NoChunk}
  BY DEF ChunkPlan, SourceChanged, Ranges, ClearLeftovers, DropPlan, ChunkStateLost,
         RemoveLostPart, RemoveChunkPart, RemoveLinearPart, fileVars
<1>5. /\ \A r \in Rows : row'[r].open => row[r].open
      /\ row'[me].plan = row[me].plan \/ ~HasChunkProgress(row'[me].plan)
  <2>1. CASE row' = row \/ SetPlan(run.row, <<>>)
    BY <1>1, <1>2, <2>1, PlanKeptOrDropped
  <2>2. CASE Ranges
    <3>1. /\ \A q \in Rows : q # run.row => row'[q] = row[q]
          /\ row' # row => ~HasChunkProgress(row'[run.row].plan)
      BY <1>1, <2>2, RangesPlan
    <3>2. row'[run.row].open = row[run.row].open
      BY <1>1, <2>2, RangesPlan
    <3> QED BY <3>1, <3>2
  <2> QED BY <2>1, <2>2 DEF ChunkPlan, SourceChanged, ClearLeftovers, DropPlan, ChunkStateLost,
                            RemoveLostPart
<1>6. run'.row \in {0, run.row} /\ run'.at # "publish" /\ (run'.dead => run.dead)
  <2>1. CASE run' = NoRun
    BY <2>1, IsOver
  <2>2. CASE \E a \in {"changed", "ranges", "clear", "open", "unplan", "lostpart"} : Goto(a)
    BY <1>1, <2>2, GoesOn DEF Stages, Kept
  <2>3. CASE Ranges
    BY <1>1, <2>3, RangesPlan DEF Kept
  <2>4. CASE run' = [run EXCEPT !.at = "clear", !.blind = TRUE]
    BY <1>1, <2>4 DEF RunRec
  <2> QED BY <2>1, <2>2, <2>3, <2>4 DEF ChunkPlan, TooNarrow, Linear, Ends, SourceChanged,
             ClearLeftovers, DropPlan, ChunkStateLost, RemoveLostPart
<1> QED BY <1>3, <1>4, <1>5, <1>6, SoleStays

\* Publication keeps Sole.
LEMMA PublishSole ==
  ASSUME KeepInv, NEW me \in Rows, Sole(me), Publish \/ RemoveOld \/ Finish
  PROVE  Sole(me)'
<1>1. TypeInv /\ Types /\ run \in RunRec
  BY KeepInvParts
<1>2. CASE Publish
  <2>1. /\ UNCHANGED <<scene, source, row>> /\ wspart' \in {wspart, NoPart}
        /\ wschunk' \in {wschunk, NoChunk}
    BY <1>2 DEF Publish, Rename
  <2>2. TypeInv' /\ run'.row = run.row /\ run'.at = "published" /\ run'.dead = run.dead
    BY <1>1, <1>2, PublishTypes DEF Kept
  <2> QED BY <2>1, <2>2, SoleStays
<1>3. CASE RemoveOld
  <2>1. UNCHANGED <<scene, source, row, wspart, wschunk, run>>
    BY <1>3 DEF RemoveOld
  <2> QED BY <2>1 DEF Sole
<1>4. CASE Finish
  <2>1. /\ UNCHANGED <<scene, source, wspart, wschunk>> /\ run' = NoRun
    BY <1>4 DEF Finish, Ends, fileVars
  <2>2. /\ \A r \in Rows : row'[r].open => row[r].open
        /\ row'[me].plan = row[me].plan \/ ~HasChunkProgress(row'[me].plan)
    BY <1>1, <1>4, FinishTypes, EmptyPlan
  <2>3. TypeInv'
    BY <1>1, <1>4, FinishTypes
  <2> QED BY <2>1, <2>2, <2>3, IsOver, SoleStays
<1> QED BY <1>2, <1>3, <1>4

\* Every step keeps Sole.
LEMMA SoleStep ==
  ASSUME KeepInv, NEW me \in Rows, Sole(me), [Next]_vars
  PROVE  Sole(me)'
<1>1. TypeInv /\ Types /\ run \in RunRec
  BY KeepInvParts
<1>2. CASE UNCHANGED vars
  BY <1>2 DEF vars, fileVars, Sole
<1>3. CASE \E r \in Rows : Start(r)
  <2>1. PICK r \in Rows : Start(r)
    BY <1>3
  <2>2. r = me /\ UNCHANGED <<scene, source, row, wspart, wschunk>>
    BY <2>1 DEF Start, Sole, fileVars
  <2>3. run'.row = me /\ run'.at = "plan" /\ ~run'.dead
    BY <1>1, <2>1, <2>2, StartTypes
  <2> QED BY <2>2, <2>3 DEF Sole
<1>4. CASE GivesUp \/ AttemptFails \/ AppDies
  <2>1. run' = NoRun /\ UNCHANGED <<scene, source, row, wspart, wschunk>>
    BY <1>1, <1>4, EndingTypes DEF fileVars
  <2> QED BY <2>1, IsOver DEF Sole
<1>5. CASE Stopped
  <2>1. /\ run'.row = run.row /\ run'.at = "copy" /\ run'.dead = run.dead
        /\ UNCHANGED <<scene, source, row, wspart, wschunk>>
    BY <1>1, <1>5, StoppedTypes DEF Stopped, At, Kept, fileVars
  <2> QED BY <2>1 DEF Sole
<1>6. ~ServerDies
  BY DEF ServerDies, Sole
<1>7. \A r \in Rows : ~Replace(r)
  BY <1>1 DEF Replace, Sole, Types
<1> QED BY <1>2, <1>3, <1>4, <1>5, <1>6, <1>7, SetupSole, OpenChunkedSole, LanesSole, LanesReturnSole,
           LinearSole, PublishSole, HostDiesSole DEF Next, RunTransfer, Environment

\* Only Publish gives the name to something.
LEMMA OnlyPublishPublishes ==
  ASSUME KeepInv, Next, run'.at = "published", run.at # "published"
  PROVE  Publish
<1>1. TypeInv /\ Types /\ run \in RunRec
  BY KeepInvParts
<1>2. ASSUME NEW a \in Stages, Goto(a) PROVE a = "published"
  BY <1>1, <1>2, GoesOn
<1>3. run' # NoRun /\ run' # run
  BY IsOver
<1>4. ASSUME NEW r \in Rows PROVE ~Start(r) /\ ~Replace(r)
  BY <1>1, <1>3, StartTypes DEF Replace
<1>5. ~ChunkPlan
  <2>1. run' # [run EXCEPT !.at = "clear", !.blind = TRUE]
    BY <1>1 DEF RunRec
  <2> QED BY <1>2, <1>3, <2>1 DEF ChunkPlan, TooNarrow, Linear, Ends, Stages
<1>6. ~SourceChanged /\ ~ClearLeftovers /\ ~DropPlan /\ ~ChunkStateLost /\ ~RemoveLostPart
  BY <1>2, <1>3 DEF SourceChanged, ClearLeftovers, DropPlan, ChunkStateLost, RemoveLostPart,
                    Linear, Ends, Stages
<1>7. ~Ranges
  BY <1>1, RangesPlan
<1>8. ~OpenChunked
  <2> SUFFICES ASSUME OpenChunked PROVE FALSE
    OBVIOUS
  <2>1. ~StartLanes(Plan)
    BY <1>1, KeepInvParts, OpenChunkedCases, LanesStart
  <2>2. ~Goto("lost")
    BY <1>2 DEF Stages
  <2>3. run' # [run EXCEPT !.chunked = FALSE]
    BY <1>1 DEF RunRec
  <2> QED BY <1>1, <2>1, <2>2, <2>3, OpenChunkedCases
<1>9. \A i \in DOMAIN run.lanes : ~LaneStep(i)
  BY <1>1, LaneSteps DEF LaneStep, LaneGoes
<1>10. ~LanesReturn /\ ~OpenLinear /\ ~CopyOn /\ ~RemoveOld
  BY <1>1, <1>2, <1>3, LinearOpens DEF LanesReturn, CopyOn, RemoveOld, Ends, Stages
<1>11. ~Finish /\ ~GivesUp /\ ~AttemptFails /\ ~AppDies /\ ~HostDies
  BY <1>3 DEF Finish, GivesUp, AttemptFails, AppDies, HostDies, Ends
<1>12. ~Stopped /\ ~ServerDies
  BY <1>1, StoppedTypes, ServerDiesTypes
<1> QED BY <1>4, <1>5, <1>6, <1>7, <1>8, <1>9, <1>10, <1>11, <1>12 DEF Next, RunTransfer, Environment

\* Publish gives the name to every cell of the source, in order.
LEMMA PublishIsWhole ==
  ASSUME KeepInv, NEW me \in Rows, Sole(me), Publish
  PROVE  final' = Content(run.row)
<1>1. /\ TypeInv /\ run.row = me /\ run.at = "publish" /\ source[me].len = Size
  BY KeepInvParts, NoRowIsZero DEF Publish, At, Sole
<1>2. final' = Assembled
  BY DEF Publish, Rename
<1>3. Content(me) = [c \in 1..Size |-> source[me].tag]
  BY <1>1 DEF Content
<1>4. ASSUME NEW s \in Seq(Nat), Len(s) = Size, \A c \in 1..Size : s[c] = source[me].tag
      PROVE  s = [c \in 1..Size |-> source[me].tag]
  <2>1. s \in [1..Size -> Nat]
    BY <1>4
  <2> QED BY <1>4, <2>1
<1>5. CASE run.chunked
  BY <1>1, <1>2, <1>3, <1>4, <1>5, PartCells DEF Assembled, Sole, TypeInv, PartSize
<1>6. CASE ~run.chunked
  <2>1. wspart.data \in Seq(Nat) /\ Len(wspart.data) = Size /\ DOMAIN wspart.data = 1..Size
    BY <1>1, <1>6 DEF Sole, TypeInv, Types, PartRec
  <2>2. \A c \in 1..Size : wspart.data[c] = source[me].tag
    BY <2>1 DEF Sole
  <2> QED BY <1>1, <1>2, <1>3, <1>4, <1>6, <2>1, <2>2 DEF Assembled
<1> QED BY <1>5, <1>6

\* Where one row has the destination to itself, its source is not replaced and
\* no server crashes, whatever takes the name of the destination is the whole
\* source and nothing else (download.go:12-14, chunked.go:225-227): on any
\* number of lanes, through any faults, pauses and crashes of the app and of its
\* machine, through changes between the two engines.  There no part passes for
\* another's, so the exemption of PublishedIsWhole is not needed.
THEOREM UndisturbedFilesAreWhole ==
  Spec /\ Undisturbed => PublishedIsTheSource /\ PublishedIsWhole
<1> DEFINE Alone == \E me \in Rows : Sole(me)
<1>1. Init /\ Undisturbed => Alone
  BY SoleInit DEF Undisturbed
<1>2. KeepInv /\ Alone /\ [Next]_vars => Alone'
  <2> SUFFICES ASSUME KeepInv, Alone, [Next]_vars PROVE Alone'
    OBVIOUS
  <2>1. PICK me \in Rows : Sole(me)
    OBVIOUS
  <2>2. Sole(me)'
    BY <2>1, SoleStep
  <2> QED BY <2>2
<1>3. KeepInv /\ Alone /\ [Next]_vars =>
        [run'.at = "published" /\ run.at # "published" => final' = Content(run.row)]_vars
  <2> SUFFICES ASSUME KeepInv, Alone, Next, run'.at = "published", run.at # "published"
               PROVE  final' = Content(run.row)
    OBVIOUS
  <2> QED BY OnlyPublishPublishes, PublishIsWhole
<1>4. KeepInv /\ Alone /\ [Next]_vars =>
        [run'.at = "published" /\ run.at # "published" /\ ~run.adopted
           => final' = Content(run.row)]_vars
  BY <1>3
<1> QED BY <1>1, <1>2, <1>3, <1>4, KeepInit, KeepStep, PTL
        DEF Spec, PublishedIsTheSource, PublishedIsWhole
=============================================================================
