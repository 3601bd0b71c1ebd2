---------------------------- MODULE PaneListing ----------------------------
(***************************************************************************)
(* What a file pane derives from a listing: the path comparisons of        *)
(* lib/path.ts, the sort of usePaneSort.ts, and the filter, range and      *)
(* selection rules of FilePane.tsx.                                        *)
(*                                                                         *)
(* A path is the sequence of its folder names, already in the form         *)
(* pathKey compares; a name is a number, its place in the collation.       *)
(***************************************************************************)
EXTENDS Integers, FiniteSets, Sequences, SequencesExt

CONSTANTS
  Folders,      \* names of folders
  Files,        \* names of files
  Size,         \* what the size column shows of a file
  Date          \* what the date column shows of an entry

Names == Folders \cup Files

ASSUME NameAssumption ==
  Names \subseteq Nat \ {0} /\ IsFiniteSet(Names) /\ Folders \cap Files = {}
ASSUME ColumnAssumption == Size \in [Files -> Nat] /\ Date \in [Names -> Nat]

Root == <<>>
NoPath == <<0>>

Parent(p) == Front(p)
BaseName(p) == Last(p)

\* child is at or below parent.
IsAtOrUnder(child, parent) == IsPrefix(parent, child)

(* --- sorting --- *)

SortKey == {"name", "size", "modTime"}
SortState == [key : SortKey, desc : BOOLEAN]
DefaultSort == [key |-> "name", desc |-> FALSE]

ToggleSort(sort, k) ==
  IF sort.key = k THEN [sort EXCEPT !.desc = ~@] ELSE [key |-> k, desc |-> k # "name"]

\* Folders lead in both directions; folders have no size; ties go by name.
Ranked(sort, a, b) ==
  LET ByName == IF sort.desc THEN a > b ELSE a < b
      ByColumn(col) == IF col[a] = col[b] THEN a < b
                       ELSE IF sort.desc THEN col[a] > col[b] ELSE col[a] < col[b]
  IN \/ a \in Folders /\ b \in Files
     \/ /\ a \in Folders <=> b \in Folders
        /\ CASE sort.key = "modTime" -> ByColumn(Date)
             [] sort.key = "size" /\ a \in Files -> ByColumn(Size)
             [] OTHER -> ByName

\* The row an entry gets: after all that rank before it.
Place(names, sort, n) == Cardinality({m \in names : Ranked(sort, m, n)}) + 1

SortEntries(names, sort) ==
  [k \in 1..Cardinality(names) |-> CHOOSE n \in names : Place(names, sort, n) = k]

(* --- the rows of a pane: what passes the filter, sorted --- *)

NoFilter == Names
Rows(names, filter, sort) == SortEntries(names \cap filter, sort)

IndexOf(rows, n) == IF n \in ToSet(rows) THEN CHOOSE k \in DOMAIN rows : rows[k] = n ELSE 0

Clamp(k, rows) == IF k < 1 THEN 1 ELSE IF k > Len(rows) THEN Len(rows) ELSE k

\* The rows from the anchor, wherever a filter has left it, to k.
Span(rows, anchor, k) ==
  LET a == Clamp(anchor, rows)
      lo == IF k < a THEN k ELSE a
      hi == IF k < a THEN a ELSE k
  IN {rows[j] : j \in lo..hi}

\* Marked rows when anything is marked, the row under the cursor otherwise.
SelectionOf(rows, marks, cursor) ==
  IF marks # {} THEN ToSet(rows) \cap marks
  ELSE IF cursor \in DOMAIN rows THEN {rows[cursor]} ELSE {}
=============================================================================
