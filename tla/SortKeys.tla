------------------------------ MODULE SortKeys ------------------------------
(***************************************************************************)
(* How a sort orders rows (receipts-exec/src/ops.rs): every key column is  *)
(* encoded as unsigned words whose order is the column's, or, for the one  *)
(* column that has no such encoding, compared value by value.              *)
(*                                                                         *)
(* Half stands for 2^63.  A decimal is its bit pattern: the sign is the top *)
(* bit, and the rest orders the magnitudes, infinite from Infinity on.  A  *)
(* column has a type, and a value or Missing for every row; true/false is  *)
(* 0 or 1, text is a code into a sorted dictionary.                        *)
(***************************************************************************)
EXTENDS Integers, Sequences, Ranking

CONSTANTS
    Half,
    Infinity,
    Missing

ASSUME WordAssumption ==
    /\ Half \in Nat /\ Infinity \in 1 .. Half - 1
    /\ Missing \notin Int

I64 == - Half .. Half - 1
U64 == 0 .. 2 * Half - 1

\* v as u64, w ^ (1 << 63) and !w.
AsWord(v) == IF v < 0 THEN v + 2 * Half ELSE v
FlipTop(w) == IF w < Half THEN w + Half ELSE w - Half
Complement(w) == 2 * Half - 1 - w

\* A decimal's place among the decimals: -0.0 and 0.0 share one.
Signed(bits) == IF bits < Half THEN bits ELSE - (bits - Half)

\* The bit patterns that are neither infinite nor NaN.
Finite == {w \in U64 : - Infinity < Signed(w) /\ Signed(w) < Infinity}

CellValues(ty) ==
    CASE ty \in {"I64", "Timestamp"} -> I64
      [] ty = "F64" -> Finite
      [] ty = "Bool" -> {0, 1}
      [] ty = "DictUtf8" -> 0 .. Half - 1

SortableTypes == {"I64", "Timestamp", "F64", "Bool", "DictUtf8"}

IsPresent(col, row) == col.cells[row] # Missing

HasMissing(col) == \E row \in DOMAIN col.cells : ~ IsPresent(col, row)

----------------------------------------------------------------------------
(* Comparators.                                                            *)

\* row_cmp: whether row a comes before row b, a missing value first.
RowLess(col, a, b) ==
    IF IsPresent(col, a) /\ IsPresent(col, b)
    THEN IF col.ty = "F64"
         THEN Signed(col.cells[a]) < Signed(col.cells[b])
         ELSE col.cells[a] < col.cells[b]
    ELSE ~ IsPresent(col, a) /\ IsPresent(col, b)

RowEqual(col, a, b) == ~ RowLess(col, a, b) /\ ~ RowLess(col, b, a)

KeyLess(key, a, b) ==
    IF key.descending THEN RowLess(key.col, b, a) ELSE RowLess(key.col, a, b)

\* sort_by_comparators: the first key that tells two rows apart decides;
\* the sort is stable.
ComparedBefore(keys, a, b) ==
    \/ \E k \in DOMAIN keys :
          /\ KeyLess(keys[k], a, b)
          /\ \A j \in 1 .. k - 1 : RowEqual(keys[j].col, a, b)
    \/ a < b /\ \A k \in DOMAIN keys : RowEqual(keys[k].col, a, b)

----------------------------------------------------------------------------
(* Words.                                                                  *)

\* Mutant of Encodable: i64::MIN beside a missing value is not looked for.
Encodable_Always(col) == TRUE

\* sort_keys gives up on an integer column that has missing values and holds
\* i64::MIN, whose word is the missing value's.
Encodable(col) ==
    ~ /\ col.ty \in {"I64", "Timestamp"}
      /\ HasMissing(col)
      /\ \E row \in DOMAIN col.cells : col.cells[row] = - Half

\* Minus zero is encoded as zero.
DecimalWord(bits) ==
    LET b == IF Signed(bits) = 0 THEN 0 ELSE bits
    IN  IF b < Half THEN FlipTop(b) ELSE Complement(b)

Encoded(col, row) ==
    IF ~ IsPresent(col, row) THEN 0
    ELSE CASE col.ty \in {"I64", "Timestamp"} -> FlipTop(AsWord(col.cells[row]))
           [] col.ty = "F64" -> DecimalWord(col.cells[row])
           [] col.ty \in {"Bool", "DictUtf8"} -> 1 + col.cells[row]

Word(key, row) ==
    IF key.descending THEN Complement(Encoded(key.col, row))
    ELSE Encoded(key.col, row)

\* The order of the entries (word, ..., word, row).
EntryBefore(keys, a, b) ==
    \/ \E k \in DOMAIN keys :
          /\ Word(keys[k], a) < Word(keys[k], b)
          /\ \A j \in 1 .. k - 1 : Word(keys[j], a) = Word(keys[j], b)
    \/ a < b /\ \A k \in DOMAIN keys : Word(keys[k], a) = Word(keys[k], b)

\* sort_permutation of the rows 0 .. n-1.
SortPermutation(n, keys) ==
    IF \A k \in DOMAIN keys : Encodable(keys[k].col)
    THEN Ranked(0 .. n - 1, LAMBDA a, b : EntryBefore(keys, a, b))
    ELSE Ranked(0 .. n - 1, LAMBDA a, b : ComparedBefore(keys, a, b))
=============================================================================
