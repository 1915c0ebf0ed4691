------------------------------ MODULE TableResult -----------------------------
(***************************************************************************)
(* What TO TABLE makes of the rows that were read from a table: its        *)
(* options, the shapes of its answer and the names of its columns          *)
(* (src/core/src/runtime/engine/execute_output.cpp); and what the columns  *)
(* of any result are called (src/core/src/column_names.cpp).               *)
(*                                                                         *)
(* Options: has_header, trim_empty_rows, trim_empty_cols (off, trailing,   *)
(* all), empty_is (blank_or_null, null_only, blank_only),                  *)
(* stop_after_empty_rows, format (rect, sparse), sparse_shape (long, wide),*)
(* and header_normalize: on or off if the query says so, or unsaid.        *)
(***************************************************************************)
EXTENDS Texts

\* Words that repeat the one before are left out.
normalize_header_text(value) ==
    Spaced(FoldLeft(LAMBDA out, w : IF out # <<>> /\ Last(out) = w THEN out ELSE Append(out, w),
                    <<>>, split(normalize_table_whitespace(value))))

\* A row that is shorter than the table has no cell there.
table_cell_empty(row, col, empty_is) ==
    IF col > Len(row) THEN empty_is # "blank_only"
    ELSE empty_is # "null_only" /\ normalize_table_whitespace(row[col]) = <<>>

table_row_all_empty(row, max_cols, empty_is) ==
    \A col \in 1..max_cols : table_cell_empty(row, col, empty_is)

Width(rows) == Max({0} \cup {Len(rows[k]) : k \in DOMAIN rows})

empties(count, all_empty) == IF all_empty THEN count + 1 ELSE 0

\* The rows that are kept: after so many empty rows in succession, none is.
KeptRows(raw_rows, options) ==
    LET Take(s, row) ==
          LET all_empty == table_row_all_empty(row, Width(raw_rows), options.empty_is)
              count == empties(s.count, all_empty)
          IN  [rows |-> IF options.trim_empty_rows /\ all_empty THEN s.rows
                        ELSE Append(s.rows, row),
               count |-> count,
               stopped |-> options.stop_after_empty_rows > 0
                             /\ count >= options.stop_after_empty_rows]
    IN  FoldLeft(LAMBDA s, row : IF s.stopped THEN s ELSE Take(s, row),
                 [rows |-> <<>>, count |-> 0, stopped |-> FALSE], raw_rows).rows

EmptyCols(rows, options) ==
    {col \in 1..Width(rows) :
        \A k \in DOMAIN rows : table_cell_empty(rows[k], col, options.empty_is)}

select_table_columns(rows, options) ==
    LET all == [col \in 1..Width(rows) |-> col]
        full == 1..Width(rows) \ EmptyCols(rows, options)
    IN  CASE options.trim_empty_cols = "off" -> all
          [] options.trim_empty_cols = "trailing" -> SubSeq(all, 1, Max({0} \cup full))
          [] options.trim_empty_cols = "all" -> SelectSeq(all, LAMBDA col : col \in full)

CellOf(row, col) == IF col <= Len(row) THEN row[col] ELSE <<>>

unique_header_keys(headers) ==
    LET seen(k) == Cardinality({j \in 1..k : headers[j] = headers[k]})
    IN  [k \in DOMAIN headers |->
            IF seen(k) = 1 THEN headers[k] ELSE headers[k] \o <<"_">> \o to_string(seen(k))]

ColumnNumber(k) == <<"col_", ToString(k)>>

apply_header_normalize(options) == options.has_header /\ options.header_normalize = "on"

\* The names of the columns that are kept: those of the first row, if it is one.
Headers(rows, cols, options) ==
    [k \in DOMAIN cols |->
        LET cell == IF options.has_header /\ rows # <<>> THEN CellOf(rows[1], cols[k]) ELSE <<>>
            header == IF apply_header_normalize(options) THEN normalize_header_text(cell) ELSE cell
        IN  IF header = <<>> THEN ColumnNumber(k) ELSE header]

\* Rows and columns: every cell has its place.
RectRows(rows, cols, options) ==
    [r \in DOMAIN rows |->
        IF r = 1 /\ apply_header_normalize(options) /\ cols # <<>>
        THEN Headers(rows, cols, options)
        ELSE [k \in DOMAIN cols |-> CellOf(rows[r], cols[k])]]

data_rows(rows, options) == IF options.has_header /\ rows # <<>> THEN Tail(rows) ELSE rows

\* A mutation: a cell is looked up by its place among the kept columns.
FullCells_place(row, cols, options) ==
    SelectSeq([k \in DOMAIN cols |-> k],
              LAMBDA k : ~table_cell_empty(row, k, options.empty_is))

\* The places, among the kept columns, of the cells of a row that are not empty.
FullCells(row, cols, options) ==
    SelectSeq([k \in DOMAIN cols |-> k],
              LAMBDA k : ~table_cell_empty(row, cols[k], options.empty_is))

\* One row for each such cell: row_index, col_index, its header, and its value.
SparseLongRows(rows, cols, options) ==
    LET data == data_rows(rows, options)
        headers == Headers(rows, cols, options)
        Row(r, k) == <<to_string(r), to_string(k)>>
                     \o (IF options.has_header THEN <<headers[k]>> ELSE <<>>)
                     \o <<CellOf(data[r], cols[k])>>
        Cells(r) == LET full == FullCells(data[r], cols, options)
                    IN  [j \in DOMAIN full |-> Row(r, full[j])]
    IN  FlattenSeq([r \in DOMAIN data |-> Cells(r)])

\* One row of names and values for each row.
SparseWideRows(rows, cols, options) ==
    LET data == data_rows(rows, options)
        keys == unique_header_keys(Headers(rows, cols, options))
        Pair(r, k) == <<IF options.has_header THEN keys[k] ELSE ColumnNumber(k),
                        CellOf(data[r], cols[k])>>
    IN  [r \in DOMAIN data |->
            LET full == FullCells(data[r], cols, options)
            IN  [j \in DOMAIN full |-> Pair(r, full[j])]]

\* materialize_table_result.  Without a column there are only the rows, empty.
Materialized(rows, cols, options) ==
    [rows |-> IF options.format = "rect" THEN RectRows(rows, cols, options)
              ELSE IF options.sparse_shape = "long" THEN SparseLongRows(rows, cols, options)
              ELSE <<>>,
     sparse_wide_rows |-> IF options.format = "sparse" /\ options.sparse_shape = "wide" /\ cols # <<>>
                          THEN SparseWideRows(rows, cols, options) ELSE <<>>]

materialize_table(raw_rows, options) ==
    LET kept == KeptRows(raw_rows, options)
    IN  Materialized(kept, select_table_columns(kept, options), options)

\* Without any option the rows are the answer as they were read; an option that says
\* HEADER_NORMALIZE=OFF is one.
table_uses_default_output(options) ==
    /\ options.format = "rect" /\ ~options.trim_empty_rows
    /\ options.trim_empty_cols = "off" /\ options.empty_is = "blank_or_null"
    /\ options.stop_after_empty_rows = 0 /\ options.header_normalize = "unsaid"

TableOf(raw_rows, options) ==
    IF table_uses_default_output(options) THEN [rows |-> raw_rows, sparse_wide_rows |-> <<>>]
    ELSE materialize_table(raw_rows, options)
----------------------------------------------------------------------------
(* The names that the columns of a result are shown and exported under     *)
(* (column_names.cpp).  A name is the sequence of its pieces: a keyword is *)
(* one piece, and so is the number of a repetition.                        *)

CONSTANT Keywords   \* select, from, where, group, order, join and limit

\* What takes the place of other pieces is not spelled with capitals.
ASSUME NamesAssumption == {"_", "c", "o", "l"} \cap DOMAIN Small = {}

Digit == {"0", "1", "2", "3", "4", "5", "6", "7", "8", "9"}

\* What is no letter, digit or underscore.
Separators == Blank \cup NoBreak \cup {"-", "."}

\* Letters, digits and underscores stay; any run of others is an underscore.
Identifying(s) ==
    [k \in DOMAIN s |-> IF s[k] \in Separators THEN "_" ELSE s[k]]

\* A mutation: runs of underscores stay.
Collapsed_new_only(s) == s

Collapsed(s) ==
    LET out[k \in 0 .. Len(s)] ==
          IF k = 0 THEN <<>>
          ELSE IF s[k] = "_" /\ out[k - 1] # <<>> /\ Last(out[k - 1]) = "_" THEN out[k - 1]
          ELSE Append(out[k - 1], s[k])
    IN  out[Len(s)]

\* A no-break space is none of the spaces that are trimmed.
trim_copy(s) == From(UpTo(s, Blank), Blank)

normalize_colname(raw, lowercase) ==
    LET value == IF lowercase THEN to_lower(trim_copy(raw)) ELSE trim_copy(raw)
        inner == From(UpTo(Collapsed(Identifying(value)), {"_"}), {"_"})
        named == IF inner = <<>> THEN <<"c", "o", "l">> ELSE inner
        begun == IF named[1] \in Digit THEN <<"c", "_">> \o named ELSE named
    IN  IF Len(begun) = 1 /\ begun[1] \in Keywords THEN begun \o <<"_">> ELSE begun

base_name(raw, mode, lowercase) ==
    IF mode = "normalize" THEN normalize_colname(raw, lowercase)
    ELSE IF trim_copy(raw) = <<>> THEN <<"c", "o", "l">>
    ELSE trim_copy(raw)

\* A name that was met before has the number of times it was met behind it.
build_column_name_map(raw_columns, mode, lowercase) ==
    LET base == [k \in DOMAIN raw_columns |-> base_name(raw_columns[k], mode, lowercase)]
        seen(k) == Cardinality({j \in 1..k : base[j] = base[k]})
    IN  [k \in DOMAIN base |->
            IF seen(k) = 1 THEN base[k] ELSE base[k] \o <<"_", "_">> \o to_string(seen(k))]
=============================================================================
