---------------------------- MODULE AgentMapping ----------------------------
(* How the agent turns a query result into the JSON table of its reply:     *)
(* map_result and what it calls, browser_plugin/agent/src/main.cpp.  A text *)
(* is the sequence of its pieces; a field of a row is looked up in the row's      *)
(* built-in members, computed fields and attributes, in that order.         *)
EXTENDS Integers, SequencesExt, FiniteSetsExt

CONSTANTS
  DefaultRows, \* kDefaultMaxRows
  Null         \* JSON null

VARIABLES
  result,      \* the result of a query
  requested,   \* options.max_rows, or Null when it is not an integer
  payload      \* the table of the reply

Nothing == [columns |-> <<>>, rows |-> <<>>, truncated |-> FALSE]

(* parse_request: only a positive max_rows replaces the default. *)
max_rows == IF requested # Null /\ requested > 0 THEN requested ELSE DefaultRows

infer_column_type(field) ==
  CASE field \in {"node_id", "count", "parent_id", "sibling_pos", "max_depth",
                  "doc_order"} -> "number"
    [] field \in {"attributes", "terms_score"} -> "object"
    [] OTHER -> "string"

Column(name) == [name |-> name, type |-> infer_column_type(name)]

resolve_columns(r) ==
  IF r.columns # <<>> THEN r.columns
  ELSE <<"node_id", "tag", "attributes", "parent_id", "max_depth", "doc_order">>

value_for_field(field, row) ==
  IF field \in DOMAIN row.builtin THEN row.builtin[field]
  ELSE IF field \in DOMAIN row.computed THEN row.computed[field]
  ELSE IF field \in DOMAIN row.attributes THEN row.attributes[field]
  ELSE Null

(* The loop all three mappings share: a row beyond the limit sets the flag  *)
(* and ends the loop.                                                       *)
limit_reached(out, limit) == Len(out.rows) >= limit

Emit(columns, rows, limit) ==
  LET out[k \in 0 .. Len(rows)] ==
        IF k = 0 THEN [Nothing EXCEPT !.columns = columns]
        ELSE IF out[k - 1].truncated THEN out[k - 1]
        ELSE IF limit_reached(out[k - 1], limit) THEN [out[k - 1] EXCEPT !.truncated = TRUE]
        ELSE [out[k - 1] EXCEPT !.rows = Append(@, rows[k])]
  IN  out[Len(rows)]

map_row_result(r, limit) ==
  LET fields == resolve_columns(r)
      Values(row) == [c \in DOMAIN fields |-> value_for_field(fields[c], row)]
  IN  Emit([c \in DOMAIN fields |-> Column(fields[c])],
           [i \in DOMAIN r.rows |-> Values(r.rows[i])], limit)

map_list_result(r, limit) ==
  LET field == IF r.columns = <<>> THEN "value" ELSE r.columns[1]
  IN  Emit(<<Column(field)>>,
           [i \in DOMAIN r.rows |-> <<value_for_field(field, r.rows[i])>>], limit)

-----------------------------------------------------------------------------
(* Tables: the rows of every table under one set of columns.                *)
data_rows(r, table) ==
  IF r.table_has_header /\ table.rows # <<>> THEN Tail(table.rows) ELSE table.rows

(* The first row of the first table that has one with any cell. *)
header_of(r) ==
  LET candidates == {i \in DOMAIN r.tables : r.tables[i].rows # <<>> /\ r.tables[i].rows[1] # <<>>}
  IN  IF r.table_has_header /\ candidates # {} THEN r.tables[Min(candidates)].rows[1] ELSE <<>>

(* Mutation: a header decides the width, also when a row is wider. *)
max_cols_of_header(r) ==
  IF header_of(r) # <<>> THEN Len(header_of(r))
  ELSE Max({Len(row) : row \in UNION {Range(data_rows(r, t)) : t \in Range(r.tables)}} \cup {0})

max_cols(r) ==
  LET widths == {Len(row) : row \in UNION {Range(data_rows(r, t)) : t \in Range(r.tables)}}
      widest == Max(widths \cup {0})
  IN  IF widest = 0 THEN Len(header_of(r)) ELSE widest

include_table_id(r) == Len(r.tables) > 1

TableColumns(r) ==
  LET header == header_of(r)
      Name(i) == IF i <= Len(header) /\ header[i] # <<>>
                 THEN header[i] ELSE <<"col_", ToString(i)>>
  IN  (IF include_table_id(r) THEN <<[name |-> "table_node_id", type |-> "number"]>> ELSE <<>>)
      \o [i \in 1..max_cols(r) |-> [name |-> Name(i), type |-> "string"]]

TableRow(r, table, row) ==
  (IF include_table_id(r) THEN <<table.node_id>> ELSE <<>>)
  \o [c \in 1..max_cols(r) |-> IF c <= Len(row) THEN row[c] ELSE Null]

map_table_result(r, limit) ==
  LET RowsOf(t) == [i \in DOMAIN data_rows(r, t) |-> TableRow(r, t, data_rows(r, t)[i])]
  IN  IF r.tables = <<>> THEN Nothing
      ELSE Emit(TableColumns(r), FlattenSeq([i \in DOMAIN r.tables |-> RowsOf(r.tables[i])]), limit)

map_result(r, limit) == CASE r.to_table -> map_table_result(r, limit)
                          [] ~r.to_table /\ r.to_list -> map_list_result(r, limit)
                          [] OTHER -> map_row_result(r, limit)

-----------------------------------------------------------------------------
(* The handler maps its result once and replies. *)
MapResult == /\ payload = Nothing
             /\ payload' = map_result(result, max_rows)
             /\ UNCHANGED <<result, requested>>

-----------------------------------------------------------------------------
(* Every row of a reply has one value for each column, whatever the widths  *)
(* of the rows, tables and header it came from: the popup indexes values by *)
(* column.                                                                  *)
Rectangular == \A i \in DOMAIN payload.rows :
                 Len(payload.rows[i]) = Len(payload.columns)

(* max_rows only cuts the reply short: the columns are those of the whole   *)
(* result, the rows a prefix of it, and truncated says whether any is       *)
(* missing.                                                                 *)
DataRows == IF result.to_table
            THEN FlattenSeq([i \in DOMAIN result.tables |-> data_rows(result, result.tables[i])])
            ELSE result.rows

CutShort == payload # Nothing =>
  LET whole == map_result(result, Len(DataRows) + 1)
  IN  /\ payload.columns = whole.columns
      /\ payload.rows = SubSeq(whole.rows, 1, Min({max_rows, Len(DataRows)}))
      /\ payload.truncated <=> Len(DataRows) > max_rows

(* No cell of a table is lost: behind the table's id a row of the reply has  *)
(* the cells of the source row, each in its place, and nothing else.        *)
CellsKept == payload # Nothing /\ result.to_table =>
  \A i \in DOMAIN payload.rows :
    LET id == IF include_table_id(result) THEN 1 ELSE 0
        source == DataRows[i]
        row == payload.rows[i]
    IN  /\ id + Len(source) <= Len(row)
        /\ \A c \in id + 1 .. Len(row) :
              row[c] = IF c - id <= Len(source) THEN source[c - id] ELSE Null
=============================================================================
