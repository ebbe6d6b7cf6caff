------------------------------- MODULE Table --------------------------------
(***************************************************************************)
(* kube/table.go: which rows Flush prints, and in which order.             *)
(*                                                                         *)
(* A row is a function from headers to cells.  A name or glob is the set   *)
(* of the cells path.Match takes for it; a malformed one is empty.  Widths *)
(* and colours are left out.                                               *)
(***************************************************************************)
EXTENDS FiniteSets, Lists

Headers(rows) == IF rows = <<>> THEN {} ELSE DOMAIN rows[1]

MatchesAny(patterns, cell) == \E p \in patterns : cell \in p

(* filterRows: no names, or none of the columns, keeps every row. *)
FilterRows(rows, columns, patterns) ==
  LET present == columns \cap Headers(rows) IN
    IF patterns = {} \/ present = {} THEN rows
    ELSE Kept(rows, {r \in Range(rows) : \E c \in present : MatchesAny(patterns, r[c])})

(* hideRows, and the number it reports under the table. *)
HideRows(rows, column, hide) ==
  IF column \notin Headers(rows) THEN rows
  ELSE Kept(rows, {r \in Range(rows) : r[column] \notin hide})

HiddenCount(rows, column, hide) == Len(rows) - Len(HideRows(rows, column, hide))

(* slices.SortStableFunc on integer keys: the place of row i is the number  *)
(* of rows that come before it or tie with it from an earlier position.     *)
Place(keys, i) ==
  Cardinality({j \in DOMAIN keys : keys[j] < keys[i] \/ (keys[j] = keys[i] /\ j <= i)})

StableSort(rows, keys) ==
  [p \in DOMAIN rows |-> rows[CHOOSE i \in DOMAIN rows : Place(keys, i) = p]]

(* sortRows: the registered rank of a column, else its numbers when every   *)
(* cell is one, else its text.                                              *)
SortRows(rows, column, rank, number, text) ==
  LET SortedBy(order) == StableSort(rows, [i \in DOMAIN rows |-> order[rows[i][column]]]) IN
    IF column \notin Headers(rows) THEN rows
    ELSE IF column \in DOMAIN rank THEN SortedBy(rank[column])
    ELSE IF \A i \in DOMAIN rows : rows[i][column] \in DOMAIN number THEN SortedBy(number)
    ELSE SortedBy(text)
=============================================================================
