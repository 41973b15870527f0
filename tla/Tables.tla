-------------------------------- MODULE Tables --------------------------------
(***************************************************************************)
(* ait/core/table.py and ait_table_encode, ait_table_decode: a table is    *)
(* encoded from a text file of rows into a binary file and decoded into    *)
(* another text file.  Both files are opened for writing when their        *)
(* contents are complete, and are cut short when the tool is killed.       *)
(***************************************************************************)
EXTENDS DataTypes, FiniteSets, SequencesExt

CONSTANTS TableDefinitions, \* columns of the header and of the rows, size in bytes, upload type
          CellNames,        \* names that occur in a text
          Texts,            \* what may be in the text file: rows of numbers and names
          NoMap,            \* the enumeration of a column without one
          MaxRuns           \* bound: how often a tool is run

\* An enumeration maps numbers to names, in increasing order, and need not be one to one.
Column(type, enum) == [type |-> type, enum |-> enum]

IsColumn(column) == /\ column.type \in PrimitiveTypes
                    /\ column.enum # NoMap =>
                          /\ IsFiniteSet(DOMAIN column.enum) /\ DOMAIN column.enum \subseteq Int
                          /\ \A n \in DOMAIN column.enum : column.enum[n] \in CellNames
AreColumns(columns) == /\ columns \in Seq({columns[i] : i \in DOMAIN columns})
                       /\ \A i \in DOMAIN columns : IsColumn(columns[i])

\* What a cell is: its name, or the number that it spells.
Cells == Int \cup CellNames

ASSUME TablesAssumption ==
    /\ \A d \in TableDefinitions :
          AreColumns(d.header) /\ AreColumns(d.columns) /\ Len(d.columns) > 0
          /\ d.size \in Nat
    /\ \A name \in CellNames : name \notin Int
    /\ Texts \subseteq Seq(Seq(Cells))
    /\ MaxRuns \in Nat

VARIABLES table,    \* the definition the tools are given
          source,   \* the text file
          binary,   \* the file of bytes
          source0,  \* history: the text the bytes were encoded from
          size0,    \* history: and how many they were
          decoded,  \* the text file that was decoded
          runs

tableVars == <<table, source, binary, source0, size0, decoded, runs>>

Raises == "raises"

-----------------------------------------------------------------------------
(* FSWColDefn                                                              *)

\* encode(): the number of a name, the last one if there are several.
CellNumber(column, cell) ==
    IF column.enum = NoMap \/ ~\E n \in DOMAIN column.enum : column.enum[n] = cell THEN cell
    ELSE CHOOSE n \in DOMAIN column.enum :
            column.enum[n] = cell /\ \A k \in DOMAIN column.enum : column.enum[k] = cell => k <= n

\* int() of any other name raises, and so does struct.pack().
EncodesCell(column, cell) ==
    CellNumber(column, cell) \notin CellNames /\ Packs(column.type, CellNumber(column, cell))

CellBytes(column, cell) == encode(column.type, CellNumber(column, cell))

\* decode(): the name, if it has one.
CellName(column, n) == IF column.enum # NoMap /\ n \in DOMAIN column.enum THEN column.enum[n] ELSE n

-----------------------------------------------------------------------------
(* FSWTabDefn.encode: cells without a column are dropped, and a row may    *)
(* have too few of them.                                                   *)

Zipped(columns, row) == 1 .. Upto(Len(columns), Len(row))

EncodesRow(columns, row) == \A i \in Zipped(columns, row) : EncodesCell(columns[i], row[i])

RowBytes(columns, row) == Together([i \in Zipped(columns, row) |-> CellBytes(columns[i], row[i])])

HeaderRows == IF table.header = <<>> THEN 0 ELSE 1
RowsColumns(k) == IF k <= HeaderRows THEN table.header ELSE table.columns

\* Header values must be there, one for each column.
RowsEncode(text) ==
    /\ HeaderRows = 1 => text # <<>> /\ Len(text[1]) = Len(table.header)
    /\ \A k \in DOMAIN text : EncodesRow(RowsColumns(k), text[k])

Encoded(text) == Together([k \in DOMAIN text |-> RowBytes(RowsColumns(k), text[k])])

-----------------------------------------------------------------------------
(* FSWTabDefn.decode: the header, and rows until the bytes are used up.    *)

\* Columns are read one after the other, from where the last row ended: those before the
\* first that has too few bytes.
ColumnsRead(columns, bytes, at) == {i \in DOMAIN columns : at + FieldsEnd(columns, i) <= Len(bytes)}

ColumnBytes(columns, bytes, at, i) ==
    Slice(bytes, at + FieldsEnd(columns, i - 1), at + FieldsEnd(columns, i))

Row(columns, bytes, at) ==
    [i \in ColumnsRead(columns, bytes, at) |->
        CellName(columns[i], decode(columns[i].type, ColumnBytes(columns, bytes, at, i)))]

\* mutated: a row that ends early ends the table, with the columns it has.
EndsRowAnywhere(columns, bytes, at) == ColumnsRead(columns, bytes, at) # DOMAIN columns

\* The end of the file is where the first column ends early; anywhere else it raises.
EndsRow(columns, bytes, at) == ColumnsRead(columns, bytes, at) = {}

\* The table read so far, how far the file is read, and what ended it.
NothingRead == [rows |-> <<>>, at |-> 0, end |-> "no"]

DecodeRow(bytes, state) ==
    LET columns == RowsColumns(Len(state.rows) + 1)
        read == ColumnsRead(columns, bytes, state.at)
        row == Row(columns, bytes, state.at) IN
    CASE state.end # "no" -> state
      [] state.end = "no" /\ read = DOMAIN columns ->
            [state EXCEPT !.rows = Append(@, row), !.at = @ + FieldsEnd(columns, Len(columns))]
      [] OTHER ->
            [state EXCEPT !.rows = IF read = {} THEN @ ELSE Append(@, row),
                          !.end = IF EndsRow(columns, bytes, state.at) /\ Len(state.rows) >= HeaderRows
                                  THEN "end" ELSE Raises]

\* Every row has a byte, so that there are no more rows than bytes.
Decoded(bytes) ==
    LET after[i \in 0 .. Len(bytes) + 1] == IF i = 0 THEN NothingRead ELSE DecodeRow(bytes, after[i - 1])
    IN after[Len(bytes) + 1]

-----------------------------------------------------------------------------
(* The tools.  A tool of the command line pads what it has encoded to the  *)
(* size of its definition; the functions of the module do not.             *)

TablesInit == /\ table \in TableDefinitions
              /\ source \in Texts
              /\ binary = <<>>
              /\ source0 = <<>>
              /\ size0 = 0
              /\ decoded = <<>>
              /\ runs = 0

Running == runs < MaxRuns /\ runs' = runs + 1

Padded(bytes) == bytes \o [i \in 1 .. table.size - Len(bytes) |-> 0]

\* encode_to_file(), or ait_table_encode; a crash leaves the first of the bytes.
EncodeInto(bytes) == /\ Running
                 /\ \E n \in 0 .. Len(bytes) : binary' = SubSeq(bytes, 1, n)
                 /\ source0' = source
                 /\ size0' = Len(bytes)
                 /\ UNCHANGED <<table, source, decoded>>

EncodeToFile == RowsEncode(source) /\ EncodeInto(Encoded(source))

EncodeTool == /\ RowsEncode(source)
              /\ Len(Encoded(source)) <= table.size
              /\ EncodeInto(Padded(Encoded(source)))

\* The rows raise, or are too many for the tool: the file is what it was.
EncodeNothing == /\ Running
                 /\ ~(RowsEncode(source) /\ Len(Encoded(source)) <= table.size)
                 /\ UNCHANGED <<table, source, binary, source0, size0, decoded>>

\* decode_to_file(), or ait_table_decode, which makes a comment of the first row: that is
\* the header, where there is one.
DecodeInto(rows) == /\ Running
                /\ Decoded(binary).end = "end"
                /\ \E n \in 0 .. Len(rows) : decoded' = SubSeq(rows, 1, n)
                /\ UNCHANGED <<table, source, binary, source0, size0>>

DecodeToFile == DecodeInto(Decoded(binary).rows)

\* The first byte tells the tool which definition to decode with; an empty file tells 0.
Picked == {d \in TableDefinitions : d.uptype = IF binary = <<>> THEN 0 ELSE binary[1]}

DecodeTool == /\ Picked = {table}
              /\ DecodeInto(SubSeq(Decoded(binary).rows, 2, Len(Decoded(binary).rows)))

\* It decodes with another one, into rows of any kind.
DecodeAsOther == /\ Running
                 /\ \E d \in TableDefinitions : d # table /\ Picked = {d}
                 /\ decoded' \in Texts
                 /\ UNCHANGED <<table, source, binary, source0, size0>>

\* The bytes do not decode, or the tool finds no definition or several and exits.
DecodeNothing == /\ Running
                 /\ Decoded(binary).end = Raises \/ Cardinality(Picked) # 1
                 /\ UNCHANGED <<table, source, binary, source0, size0, decoded>>

\* The text is edited, or what was decoded becomes the text to encode.
EditText == /\ runs < MaxRuns
            /\ source' \in Texts \cup {decoded}
            /\ source' # source
            /\ UNCHANGED <<table, binary, source0, size0, decoded, runs>>

TablesNext == \/ EncodeToFile \/ EncodeTool \/ EncodeNothing
              \/ DecodeToFile \/ DecodeTool \/ DecodeAsOther \/ DecodeNothing
              \/ EditText

TablesSpec == TablesInit /\ [][TablesNext]_tableVars

-----------------------------------------------------------------------------
TablesTypes == /\ table \in TableDefinitions
               /\ \A i \in DOMAIN binary : binary[i] \in Byte
               /\ Len(binary) <= size0
               /\ runs \in 0 .. MaxRuns

\* Rows in which every column has its cell, and what they become: the numbers that have a
\* name are replaced by it, and cells that belong to no column are gone.
Fits(text) == \A k \in DOMAIN text : Len(text[k]) >= Len(RowsColumns(k))
Normal(text) ==
    [k \in DOMAIN text |->
        [i \in DOMAIN RowsColumns(k) |->
            LET column == RowsColumns(k)[i] IN
            IF column.enum # NoMap /\ text[k][i] \in DOMAIN column.enum
            THEN column.enum[text[k][i]] ELSE text[k][i]]]

\* The bytes of a table decode to the rows it was encoded from, however often it is decoded
\* and encoded again, and the padding to rows of zeros behind them; what a crash has cut
\* short decodes to the first of them and never to a row of its own, or raises
\* (encode, decode, _decode_table_row: table.py:227-404; ait_table_encode.py:57-69).
TableReadsBack ==
    Fits(source0) =>
       LET read == Decoded(binary)
           rows == Normal(source0)
           zeros == [k \in 1 .. Len(read.rows) |-> [i \in DOMAIN table.columns |-> CellName(table.columns[i], 0)]] IN
       /\ read.end = "end" => IsPrefix(read.rows, rows \o zeros)
       /\ Len(binary) = Len(Encoded(source0)) /\ source0 # <<>> => read.end = "end" /\ read.rows = rows
=============================================================================
