---------------------------- MODULE ColumnTypes ----------------------------
(***************************************************************************)
(* What a column's Arrow type makes of its cells: what the accessors of a  *)
(* store report for a cell, and what the buffer the bulk comparison reads  *)
(* holds for it. A "dict" column is a dictionary of u8.                    *)
(***************************************************************************)
CONSTANTS
  Null,      \* a null cell
  Default,   \* what Arrow stores under a null and the accessors fall back to: 0, false, ""
  NoValue    \* what an empty dictionary has for its first value

Kinds == {"u8", "u16", "u32", "u64", "bool", "str", "dict"}

\* The types count_diffs_typed and collect_diff_indices_typed have a case for.
CountedKinds == {"u8", "u16", "u32", "bool", "str", "dict"}
ListedKinds == {"u8", "u16"}

\* The accessor a column is read with: get_bool, get_str or get_numeric.
Accessor(kind) == IF kind \in {"bool", "str"} THEN kind ELSE "numeric"

\* What an accessor reports for a cell: the default for a null, and for a column
\* that is another accessor's.
Reported(accessor, kind, cell) ==
  IF accessor = Accessor(kind) /\ cell # Null THEN cell ELSE Default

\* What the value buffer holds for a cell of a chunk whose dictionary starts with
\* `first`. A null of a dictionary column has key 0.
Stored(kind, cell, first) ==
  IF cell # Null THEN cell ELSE IF kind = "dict" THEN first ELSE Default
=============================================================================
